---- MODULE Spec2Model ----
(***************************************************************************)
(* Hybrid pattern retrieval of component-forge: application startup        *)
(* (main.lifespan), the retrieval route (api/v1/routes/retrieval.py) and   *)
(* the orchestrator RetrievalService.search (services/retrieval_service.py)*)
(* The lexical retriever, the score fusion, the query builder and the      *)
(* explainer are collaborators whose behaviour is taken from the design    *)
(* document; the semantic retriever is an external service whose answer    *)
(* (a candidate list, or an exception) is an input of the await step.      *)
(*                                                                         *)
(* Scores are integers: BM25 scores in tenths, similarities in hundredths, *)
(* weights in tenths (0.3 -> 3, 0.7 -> 7, 1.0 -> 10).                      *)
(***************************************************************************)
EXTENDS Integers, Sequences, FiniteSets, TLC

(* ---------------- bounds ---------------- *)
NumReq == 2
MaxTopK == 3
MaxProps == 2
MaxRetriesBound == 2
MaxCacheOps == 3
MaxServices == 2         \* calls of set_retrieval_service in one run

(* ---------------- program constants ---------------- *)
NoneRank == 0            \* Python None in a rank position (falsy, like 0)
NotRanked == 999         \* "or 999" sentinel handed to the explainer
CandidateWidth == 10     \* top_k=10 asked of each channel
RouteTopK == 3           \* top_k=3 passed by the route
Bm25Weight == 3          \* default of WeightedFusion.bm25_weight, tenths
SemanticWeight == 7      \* default of WeightedFusion.semantic_weight, tenths
FullWeight == 10         \* 1.0 in tenths
ClassifierMaxRetries == 3
LatencySamples == 100
NormScale == 100         \* 1.0 of a normalised score

Reqs == 1..NumReq
\* The callers of the sequential specification: one request at a time.
SequentialCallers == {1}

Min(a, b) == IF a <= b THEN a ELSE b

(* ---------------- the pattern library ---------------- *)
\* data/patterns/*.json: id, searchable terms, and whether the metadata bag
\* is well formed.
PatternLibrary ==
  [i \in 1..3 |->
     CASE i = 1 -> [id |-> 1, terms |-> {"button", "variant", "size"}, malformed |-> FALSE]
       [] i = 2 -> [id |-> 2, terms |-> {"card"}, malformed |-> FALSE]
       [] OTHER -> [id |-> 3, terms |-> {"button", "icon"}, malformed |-> TRUE]]

\* What glob + json.load can find at startup: 0 is a file that fails to load.
StartupFileSets == { <<>>, <<0>>, <<1, 2>>, <<1, 0, 2>>, <<1, 2, 3>> }

\* Corpora a service can be constructed over.
Corpora == { <<>>, <<1, 2>>, <<1, 2, 3>> }

SeqToSet(s) == { s[i] : i \in 1..Len(s) }

RECURSIVE LoadPatterns(_)
\* lifespan's loading loop: a file that fails to load is logged and skipped.
LoadPatterns(files) ==
  IF files = <<>> THEN <<>>
  ELSE IF Head(files) = 0 THEN LoadPatterns(Tail(files))
       ELSE <<Head(files)>> \o LoadPatterns(Tail(files))

(* ---------------- services ---------------- *)
\* WeightedFusion(bm25_weight, semantic_weight): the object that holds the
\* two channel weights, in tenths.
WeightedFusion(bm25_weight, semantic_weight) ==
  [bm25_weight |-> bm25_weight, semantic_weight |-> semantic_weight]

\* The fusion objects a service can be constructed with: WeightedFusion()
\* with its defaults, and other splits of the full weight between the two
\* channels (lexical-only, even, semantic-only).
WeightedFusions ==
  { WeightedFusion(w, FullWeight - w) : w \in {Bm25Weight, FullWeight \div 2, FullWeight} }

NoService ==
  [present |-> FALSE, object |-> 0, patterns |-> <<>>, semantic |-> FALSE,
   weighted_fusion |-> WeightedFusion(0, 0)]

\* RetrievalService.__init__: object is self, the identity of the instance
\* (the class defines no __eq__, so two instances built with equal
\* arguments are different services). Object 1 is the one lifespan
\* constructs; those handed to set_retrieval_service are numbered after it.
RetrievalService(object, patterns, semantic_retriever, weighted_fusion) ==
  [present |-> TRUE, object |-> object, patterns |-> patterns,
   semantic |-> semantic_retriever, weighted_fusion |-> weighted_fusion]

(* ---------------- requirements ---------------- *)
NoType == "none"
Requirements ==
  [component_type : {NoType, "button", "card"}, props : { {}, {"variant", "size"} }]


(* ---------------- QueryBuilder ---------------- *)
\* build_from_requirements raises a validation error without component_type.
BuildRaises(requirements) == requirements.component_type = NoType

\* build_from_requirements: the lexical query is the deduplicated bag of
\* terms of component_type and props; the semantic query describes the same
\* component; the filters carry the exact component type.
BuildFromRequirements(requirements) ==
  [bm25_query |-> {requirements.component_type} \cup requirements.props,
   semantic_query |-> {requirements.component_type} \cup requirements.props,
   filters |-> requirements.component_type]

(* ---------------- slicing ---------------- *)
\* Python s[:k]
SlicePrefix(s, k) ==
  IF k >= 0 THEN SubSeq(s, 1, Min(k, Len(s)))
  ELSE SubSeq(s, 1, IF Len(s) + k >= 0 THEN Len(s) + k ELSE 0)

(* ---------------- LexicalRetriever (BM25) ---------------- *)
\* Relevance of one pattern: ten per query term it carries.
Bm25Score(id, query) == 10 * Cardinality(PatternLibrary[id].terms \cap query)

\* Descending score, ties by ascending pattern id.
Bm25Before(a, b) == a.score > b.score \/ (a.score = b.score /\ a.id < b.id)

\* The candidates of S in lexical order, best first.
SortBm25(S) ==
  [i \in 1..Cardinality(S) |->
     CHOOSE a \in S : Cardinality({b \in S : Bm25Before(b, a)}) = i - 1]

\* BM25Retriever.search(query, top_k): the scored patterns of the corpus,
\* best first.
Bm25Search(patterns, query, top_k) ==
  LET scored == { [id |-> id, score |-> Bm25Score(id, query)] : id \in SeqToSet(patterns) }
      hits == { c \in scored : c.score > 0 }
  IN SlicePrefix(SortBm25(hits), top_k)

(* ---------------- SemanticRetriever (external) ---------------- *)
\* Candidate lists the vector service may answer with: descending
\* similarity, no duplicate ids.
SemanticLists ==
  { <<>>,
    <<[id |-> 1, score |-> 90], [id |-> 2, score |-> 40]>>,
    <<[id |-> 2, score |-> 85], [id |-> 1, score |-> 60]>>,
    <<[id |-> 3, score |-> 70], [id |-> 1, score |-> 70]>>,
    <<[id |-> 2, score |-> 50]>> }

SemanticRaise == <<[id |-> 0, score |-> 0]>>

\* The answers possible for a service: lists over its own corpus, or an
\* exception.
SemanticAnswers(service) ==
  { l \in SemanticLists :
      \A i \in 1..Len(l) : l[i].id \in SeqToSet(service.patterns) }
  \cup {SemanticRaise}

(* ---------------- ScoreFusion ---------------- *)
RankIn(results, id) ==
  IF \E i \in 1..Len(results) : results[i].id = id
  THEN CHOOSE i \in 1..Len(results) : results[i].id = id
  ELSE NoneRank

ScoreIn(results, id) ==
  IF RankIn(results, id) = NoneRank THEN 0 ELSE results[RankIn(results, id)].score

\* Min-max normalisation of one channel's score within its candidate list;
\* a pattern absent from the list contributes 0.
Normalize(results, id) ==
  IF RankIn(results, id) = NoneRank THEN 0
  ELSE LET hi == results[1].score
           lo == results[Len(results)].score
       IN IF hi = lo THEN NormScale
          ELSE ((ScoreIn(results, id) - lo) * NormScale) \div (hi - lo)

RankKey(rank) == IF rank = NoneRank THEN NotRanked ELSE rank

\* Descending final score, then better lexical rank, then ascending id.
FusedBefore(a, b) ==
  \/ a.final_score > b.final_score
  \/ /\ a.final_score = b.final_score
     /\ \/ RankKey(a.bm25_rank) < RankKey(b.bm25_rank)
        \/ RankKey(a.bm25_rank) = RankKey(b.bm25_rank) /\ a.id < b.id

\* The fused candidates of S in final order, best first.
SortFused(S) ==
  [i \in 1..Cardinality(S) |->
     CHOOSE a \in S : Cardinality({b \in S : FusedBefore(b, a)}) = i - 1]

\* WeightedFusion.fuse_with_details
FuseWithDetails(weighted_fusion, bm25_results, semantic_results, top_k) ==
  LET ids == { bm25_results[i].id : i \in 1..Len(bm25_results) }
             \cup { semantic_results[i].id : i \in 1..Len(semantic_results) }
      fused == { [id |-> id,
                  final_score |-> weighted_fusion.bm25_weight * Normalize(bm25_results, id)
                                  + weighted_fusion.semantic_weight * Normalize(semantic_results, id),
                  bm25_score |-> ScoreIn(bm25_results, id),
                  bm25_rank |-> RankIn(bm25_results, id),
                  semantic_score |-> ScoreIn(semantic_results, id),
                  semantic_rank |-> RankIn(semantic_results, id)] : id \in ids }
      top == SlicePrefix(SortFused(fused), top_k)
  IN [i \in 1..Len(top) |->
        [id |-> top[i].id,
         final_score |-> top[i].final_score,
         final_rank |-> i,
         bm25_score |-> top[i].bm25_score,
         bm25_rank |-> top[i].bm25_rank,
         semantic_score |-> top[i].semantic_score,
         semantic_rank |-> top[i].semantic_rank,
         weights |-> [bm25 |-> weighted_fusion.bm25_weight,
                      semantic |-> weighted_fusion.semantic_weight]]]

\* The fallback over the whole lexical list, top_k ignored.
Bm25OnlyDetailsUnsliced(bm25_results, top_k) ==
  [i \in 1..Len(bm25_results) |->
     [id |-> bm25_results[i].id,
      final_score |-> bm25_results[i].score,
      final_rank |-> i,
      bm25_score |-> bm25_results[i].score,
      bm25_rank |-> i,
      semantic_score |-> 0,
      semantic_rank |-> NoneRank,
      weights |-> [bm25 |-> FullWeight, semantic |-> 0]]]

\* The fallback with enumerate counting from 0.
Bm25OnlyDetailsFromZero(bm25_results, top_k) ==
  LET top == SlicePrefix(bm25_results, top_k)
  IN [i \in 1..Len(top) |->
        [id |-> top[i].id,
         final_score |-> top[i].score,
         final_rank |-> i - 1,
         bm25_score |-> top[i].score,
         bm25_rank |-> i - 1,
         semantic_score |-> 0,
         semantic_rank |-> NoneRank,
         weights |-> [bm25 |-> FullWeight, semantic |-> 0]]]

\* search, step 4, else branch: the lexical-only fallback
Bm25OnlyDetails(bm25_results, top_k) ==
  LET top == SlicePrefix(bm25_results, top_k)
  IN [i \in 1..Len(top) |->
        [id |-> top[i].id,
         final_score |-> top[i].score,
         final_rank |-> i,
         bm25_score |-> top[i].score,
         bm25_rank |-> i,
         semantic_score |-> 0,
         semantic_rank |-> NoneRank,
         weights |-> [bm25 |-> FullWeight, semantic |-> 0]]]

\* search, step 4
FusionDetails(service, bm25_results, semantic_results, top_k) ==
  IF semantic_results # <<>>
  THEN FuseWithDetails(service.weighted_fusion, bm25_results, semantic_results, top_k)
  ELSE Bm25OnlyDetails(bm25_results, top_k)

(* ---------------- ResultExplainer ---------------- *)
\* Python "x or d" on a rank: None and 0 are falsy.
OrDefault(x, d) == IF x = NoneRank THEN d ELSE x

\* RetrievalExplainer.explain raises ExplanationError on a pattern whose
\* metadata bag is malformed.
ExplainRaises(id) == PatternLibrary[id].malformed

\* RetrievalExplainer.explain: the templated explanation and the ranking
\* details, echoing the scores and ranks it was given.
Explain(id, bm25_score, bm25_rank, semantic_score, semantic_rank, final_score, final_rank) ==
  [explanation |-> "templated",
   ranking_details |-> [bm25_score |-> bm25_score,
                        bm25_rank |-> bm25_rank,
                        semantic_score |-> semantic_score,
                        semantic_rank |-> semantic_rank,
                        final_score |-> final_score,
                        final_rank |-> final_rank]]

\* search, step 5, one iteration: the explainer call of the loop body
ExplainDetail(detail) ==
  Explain(detail.id,
          detail.bm25_score,
          OrDefault(detail.bm25_rank, NotRanked),
          detail.semantic_score,
          OrDefault(detail.semantic_rank, NotRanked),
          detail.final_score,
          detail.final_rank)

\* search, step 5, one iteration: the enriched pattern
EnrichedPattern(detail) ==
  [id |-> detail.id,
   explanation |-> ExplainDetail(detail).explanation,
   ranking_details |-> ExplainDetail(detail).ranking_details]

\* Index of the first detail whose explanation raises, 0 if none does.
FirstExplainFailure(details) ==
  IF \E i \in 1..Len(details) : ExplainRaises(details[i].id)
  THEN CHOOSE i \in 1..Len(details) :
         /\ ExplainRaises(details[i].id)
         /\ \A j \in 1..(i - 1) : ~ExplainRaises(details[j].id)
  ELSE 0

\* search, step 5: no handler surrounds the explainer call, so the loop
\* ends at the first exception.
ExplainLoopRaises(details) == FirstExplainFailure(details) # 0

\* Number of explainer calls the loop makes.
ExplainCalls(details) ==
  IF ExplainLoopRaises(details) THEN FirstExplainFailure(details) ELSE Len(details)

\* search, step 5: the enriched patterns of a loop that ran to its end
EnrichedPatterns(details) == [i \in 1..Len(details) |-> EnrichedPattern(details[i])]

(* ---------------- responses ---------------- *)
Step(name, arg) == [step |-> name, arg |-> arg]

NoWeights == [bm25 |-> 0, semantic |-> 0]

\* A response without a body of results: an HTTP error, or an exception
\* given back to a direct caller.
ErrorResponse(status) ==
  [status |-> status, patterns |-> <<>>, methods_used |-> <<>>,
   weights |-> NoWeights, total_patterns_searched |-> 0, query |-> {}]

\* A response that reports the lexical weight for both channels.
SearchResponseBm25Twice(service, queries, methods, details) ==
  [status |-> "returned",
   patterns |-> EnrichedPatterns(details),
   methods_used |-> methods,
   weights |-> [bm25 |-> service.weighted_fusion.bm25_weight,
                semantic |-> service.weighted_fusion.bm25_weight],
   total_patterns_searched |-> Len(service.patterns),
   query |-> IF queries.semantic_query # {} THEN queries.semantic_query
             ELSE queries.bm25_query]

\* search, "Build response"
SearchResponse(service, queries, methods, details) ==
  [status |-> "returned",
   patterns |-> EnrichedPatterns(details),
   methods_used |-> methods,
   weights |-> [bm25 |-> service.weighted_fusion.bm25_weight,
                semantic |-> service.weighted_fusion.semantic_weight],
   total_patterns_searched |-> Len(service.patterns),
   query |-> IF queries.semantic_query # {} THEN queries.semantic_query
             ELSE queries.bm25_query]

\* A route that answers an exception of search with an empty success.
RouteOutcomeSwallowing(via, result) ==
  IF via = "direct" THEN result
  ELSE [result EXCEPT !.status = "200"]

\* search_patterns: what the route makes of the outcome of search
RouteOutcome(via, result) ==
  IF via = "direct" THEN result
  ELSE IF result.status = "raised" THEN ErrorResponse("500")
       ELSE [result EXCEPT !.status = "200"]

(* ---------------- state ---------------- *)
VARIABLES
  phase,               \* "starting" until lifespan yields, then "serving"
  startup,             \* what lifespan met: the files found, whether initialisation failed
  app_state_service,   \* app.state.retrieval_service
  services_registered, \* how many services set_retrieval_service has been handed
  _retrieval_service,  \* the module global the route's dependency reads
  pc,                  \* per request: idle, resolved, await_semantic, done
  req,                 \* per request: how it came in, its requirements, its top_k
  svc,                 \* per request: the service instance it runs on
  bm25_results,        \* per request: the lexical candidates
  semantic_results,    \* per request: the semantic candidates, [] until the channel answers
  methods_used,        \* per request: the channels recorded so far
  fusion_details,      \* per request: the fused (or fallback) details
  trace,               \* per request: the pipeline steps executed, in order
  suspended_peers,     \* per request (history): the other calls suspended at the semantic
                       \* await of the same service when this call resumed
  raised,              \* per request: the call whose exception ended search, or "none"
  response,            \* per request: what the caller receives
  patterns_dir,        \* generation: the pattern files on disk, each valid JSON or not
  generator_service,   \* generation: the module-level GeneratorService, its attributes
  current_stage,       \* generation: GeneratorService.current_stage
  generation_request,  \* generation: the request handled, how it came in
  generation_result,   \* generation: the GenerationResult generate returned
  generation_response, \* generation: what the caller of the route receives
  generation_raised,   \* generation: the exception generate raised to its caller
  agents,              \* proposal: what the classifier and the props proposer answer
  orch_pc,             \* proposal: per variant, its position between the awaits
  requirement_state,   \* proposal: per variant, the RequirementState it builds
  props,               \* implementer: the prop definitions given
  component_name,      \* implementer: the component name given
  interface_lines,     \* implementer: the lines of the props interface generated
  validator,           \* validator: max_retries and whether an llm_generator is held
  val_pc,              \* validator: validating, fixing, returned or raised
  attempt,             \* validator: the loop variable of validate_and_fix
  current_code,        \* validator: the revision of the code under validation
  rounds,              \* validator: validation rounds performed so far
  fix_calls,           \* validator: calls of _llm_fix_errors made so far
  fix_failures,        \* validator: those of them that raised
  last_round,          \* validator: the error and warning counts of the latest round
  validation_result,   \* validator: the ValidationResult returned
  classify_pc,         \* classifier: calling, returned or raised
  retry_count,         \* classifier: the retry_count of the call in progress
  attempt_log,         \* classifier: what each attempt made so far met, in order
  classification,      \* classifier: the ComponentClassification returned
  redis,               \* cache: the keys stored and their values
  cache_calls,         \* cache: per caller, its FigmaCache call, its position and what it returned
  cache_ops            \* cache: the number of operations performed

generationVars == <<patterns_dir, generator_service, current_stage, generation_request,
                    generation_result, generation_response, generation_raised>>
proposalVars == <<agents, orch_pc, requirement_state>>
implementerVars == <<props, component_name, interface_lines>>
validatorVars == <<validator, val_pc, attempt, current_code, rounds, fix_calls, fix_failures, last_round,
                   validation_result>>
classifierVars == <<classify_pc, retry_count, attempt_log, classification>>
cacheVars == <<redis, cache_calls, cache_ops>>
\* everything outside the retrieval engine
otherVars == <<generationVars, proposalVars, implementerVars, validatorVars,
               classifierVars, cacheVars>>

vars == <<phase, startup, app_state_service, services_registered, _retrieval_service, pc, req, svc,
          bm25_results, semantic_results, methods_used, fusion_details, trace,
          suspended_peers, raised, response, otherVars>>

appVars == <<phase, startup, app_state_service, services_registered>>
reqVars == <<pc, req, svc, bm25_results, semantic_results, methods_used, fusion_details, trace,
             suspended_peers, raised, response>>

retrievalVars == <<appVars, _retrieval_service, reqVars>>

NoRequest == [via |-> "none", requirements |-> [component_type |-> NoType, props |-> {}], top_k |-> 0]
NoResponse == ErrorResponse("none")

RetrievalIdle ==
  /\ phase = "starting"
  /\ startup = [files |-> <<>>, failed |-> FALSE]
  /\ app_state_service = NoService
  /\ services_registered = 0
  /\ _retrieval_service = NoService
  /\ pc = [r \in Reqs |-> "idle"]
  /\ req = [r \in Reqs |-> NoRequest]
  /\ svc = [r \in Reqs |-> NoService]
  /\ bm25_results = [r \in Reqs |-> <<>>]
  /\ semantic_results = [r \in Reqs |-> <<>>]
  /\ methods_used = [r \in Reqs |-> <<>>]
  /\ fusion_details = [r \in Reqs |-> <<>>]
  /\ trace = [r \in Reqs |-> <<>>]
  /\ suspended_peers = [r \in Reqs |-> {}]
  /\ raised = [r \in Reqs |-> "none"]
  /\ response = [r \in Reqs |-> NoResponse]

(* ---------------- startup ---------------- *)
\* lifespan, the body of its try block: raises when no pattern file is
\* found or when the lexical index cannot be built.
StartupRaises(files, index_builds) == files = <<>> \/ ~index_builds

\* lifespan: load the library, build the retrievers and the service; any
\* exception is logged and the application goes on to serve.
Lifespan(files, index_builds, semantic_init) ==
  /\ phase = "starting"
  /\ startup' = [files |-> files, failed |-> StartupRaises(files, index_builds)]
  /\ app_state_service' =
       IF StartupRaises(files, index_builds) THEN app_state_service
       ELSE RetrievalService(1, LoadPatterns(files), semantic_init,
                             WeightedFusion(Bm25Weight, SemanticWeight))
  /\ phase' = "serving"
  /\ UNCHANGED <<otherVars, services_registered, _retrieval_service, reqVars>>

\* set_retrieval_service, with a service constructed by its caller: every
\* call is handed a new object.
SetRetrievalService(patterns, semantic_retriever, weighted_fusion) ==
  /\ services_registered < MaxServices
  /\ services_registered' = services_registered + 1
  /\ _retrieval_service' =
       RetrievalService(services_registered + 2, patterns, semantic_retriever, weighted_fusion)
  /\ UNCHANGED <<otherVars, phase, startup, app_state_service, reqVars>>

(* ---------------- RetrievalService.search ---------------- *)
\* The tail with the explainer called from the last rank to the first.
SearchTailExplainReversed(service, queries, top_k, bm25, semantic, methods) ==
  LET details == FusionDetails(service, bm25, semantic, top_k)
      raises == ExplainLoopRaises(details)
      n == ExplainCalls(details)
  IN [details |-> details,
      steps |-> <<Step(IF semantic # <<>> THEN "fusion" ELSE "fallback", 0)>>
                \o [i \in 1..n |-> Step("explain", details[n + 1 - i].final_rank)]
                \o (IF raises THEN <<>> ELSE <<Step("response", 0)>>),
      raised |-> IF raises THEN "explain" ELSE "none",
      result |-> IF raises THEN ErrorResponse("raised")
                 ELSE SearchResponse(service, queries, methods, details)]

\* search, steps 4 and 5 and the response: what follows the channel calls.
SearchTail(service, queries, top_k, bm25, semantic, methods) ==
  LET details == FusionDetails(service, bm25, semantic, top_k)
      raises == ExplainLoopRaises(details)
  IN [details |-> details,
      steps |-> <<Step(IF semantic # <<>> THEN "fusion" ELSE "fallback", 0)>>
                \o [i \in 1..ExplainCalls(details) |-> Step("explain", details[i].final_rank)]
                \o (IF raises THEN <<>> ELSE <<Step("response", 0)>>),
      raised |-> IF raises THEN "explain" ELSE "none",
      result |-> IF raises THEN ErrorResponse("raised")
                 ELSE SearchResponse(service, queries, methods, details)]

\* A finished request: everything the caller can observe is in response.
Finish(r, via, steps, details, exception, result) ==
  /\ pc' = [pc EXCEPT ![r] = "done"]
  /\ trace' = [trace EXCEPT ![r] = @ \o steps]
  /\ fusion_details' = [fusion_details EXCEPT ![r] = details]
  /\ raised' = [raised EXCEPT ![r] = exception]
  /\ response' = [response EXCEPT ![r] = RouteOutcome(via, result)]

\* search, from its entry to its first suspension point (the semantic
\* await) or, without a semantic retriever, to its end.
BeginSearch(r, via, service, requirements, top_k, bm25_raises) ==
  LET queries == BuildFromRequirements(requirements)
      bm25 == Bm25Search(service.patterns, queries.bm25_query, CandidateWidth)
      tail == SearchTail(service, queries, top_k, bm25, <<>>, <<"bm25">>)
  IN
  IF BuildRaises(requirements)
  THEN /\ Finish(r, via, <<Step("query", 0)>>, <<>>, "build", ErrorResponse("raised"))
       /\ UNCHANGED <<bm25_results, methods_used>>
  ELSE IF bm25_raises
  THEN /\ Finish(r, via, <<Step("query", 0), Step("bm25", 0)>>, <<>>, "bm25", ErrorResponse("raised"))
       /\ UNCHANGED <<bm25_results, methods_used>>
  ELSE IF service.semantic
  THEN /\ pc' = [pc EXCEPT ![r] = "await_semantic"]
       /\ trace' = [trace EXCEPT ![r] = @ \o <<Step("query", 0), Step("bm25", 0), Step("semantic", 0)>>]
       /\ bm25_results' = [bm25_results EXCEPT ![r] = bm25]
       /\ methods_used' = [methods_used EXCEPT ![r] = <<"bm25">>]
       /\ UNCHANGED <<fusion_details, raised, response>>
  ELSE /\ Finish(r, via, <<Step("query", 0), Step("bm25", 0)>> \o tail.steps, tail.details, tail.raised, tail.result)
       /\ bm25_results' = [bm25_results EXCEPT ![r] = bm25]
       /\ methods_used' = [methods_used EXCEPT ![r] = <<"bm25">>]

\* The calls suspended at the semantic await of one service.
SuspendedOn(service) ==
  { q \in Reqs : pc[q] = "await_semantic" /\ svc[q].object = service.object }

\* The resumption looking the service up again instead of keeping its own.
SemanticReturnsReadsGlobal(r, answer) ==
  LET queries == BuildFromRequirements(req[r].requirements)
      methods == methods_used[r] \o <<"semantic">>
      tail == SearchTail(_retrieval_service, queries, req[r].top_k, bm25_results[r], answer, methods)
  IN
  /\ pc[r] = "await_semantic"
  /\ answer \in SemanticAnswers(svc[r])
  /\ IF answer = SemanticRaise
     THEN /\ Finish(r, req[r].via, <<>>, <<>>, "semantic", ErrorResponse("raised"))
          /\ UNCHANGED <<methods_used, semantic_results>>
     ELSE /\ Finish(r, req[r].via, tail.steps, tail.details, tail.raised, tail.result)
          /\ methods_used' = [methods_used EXCEPT ![r] = methods]
          /\ semantic_results' = [semantic_results EXCEPT ![r] = answer]
  /\ suspended_peers' = [suspended_peers EXCEPT ![r] = SuspendedOn(svc[r]) \ {r}]
  /\ UNCHANGED <<otherVars, appVars, _retrieval_service, req, svc, bm25_results>>

\* The resumption with the lexical candidates kept on the service: it reads
\* those of whichever call suspended on the service stored them last.
SemanticReturnsSharedCandidates(r, answer) ==
  LET queries == BuildFromRequirements(req[r].requirements)
      methods == methods_used[r] \o <<"semantic">>
  IN
  /\ pc[r] = "await_semantic"
  /\ answer \in SemanticAnswers(svc[r])
  /\ IF answer = SemanticRaise
     THEN /\ Finish(r, req[r].via, <<>>, <<>>, "semantic", ErrorResponse("raised"))
          /\ UNCHANGED <<methods_used, semantic_results>>
     ELSE /\ \E q \in SuspendedOn(svc[r]) :
               LET tail == SearchTail(svc[r], queries, req[r].top_k, bm25_results[q], answer, methods)
               IN Finish(r, req[r].via, tail.steps, tail.details, tail.raised, tail.result)
          /\ methods_used' = [methods_used EXCEPT ![r] = methods]
          /\ semantic_results' = [semantic_results EXCEPT ![r] = answer]
  /\ suspended_peers' = [suspended_peers EXCEPT ![r] = SuspendedOn(svc[r]) \ {r}]
  /\ UNCHANGED <<otherVars, appVars, _retrieval_service, req, svc, bm25_results>>

\* search, resumed when the awaited semantic search answers or raises.
SemanticReturns(r, answer) ==
  LET requirements == req[r].requirements
      queries == BuildFromRequirements(requirements)
      methods == methods_used[r] \o <<"semantic">>
      tail == SearchTail(svc[r], queries, req[r].top_k, bm25_results[r], answer, methods)
  IN
  /\ pc[r] = "await_semantic"
  /\ answer \in SemanticAnswers(svc[r])
  /\ IF answer = SemanticRaise
     THEN /\ Finish(r, req[r].via, <<>>, <<>>, "semantic", ErrorResponse("raised"))
          /\ UNCHANGED <<methods_used, semantic_results>>
     ELSE /\ Finish(r, req[r].via, tail.steps, tail.details, tail.raised, tail.result)
          /\ methods_used' = [methods_used EXCEPT ![r] = methods]
          /\ semantic_results' = [semantic_results EXCEPT ![r] = answer]
  /\ suspended_peers' = [suspended_peers EXCEPT ![r] = SuspendedOn(svc[r]) \ {r}]
  /\ UNCHANGED <<otherVars, appVars, _retrieval_service, req, svc, bm25_results>>

(* ---------------- the route ---------------- *)
\* get_retrieval_service, resolved by Depends before the route body runs
ResolveDependency(r, requirements) ==
  /\ phase = "serving"
  /\ pc[r] = "idle"
  /\ req' = [req EXCEPT ![r] = [via |-> "http", requirements |-> requirements, top_k |-> RouteTopK]]
  /\ IF ~_retrieval_service.present
     THEN /\ pc' = [pc EXCEPT ![r] = "done"]
          /\ response' = [response EXCEPT ![r] = ErrorResponse("503")]
          /\ UNCHANGED svc
     ELSE /\ pc' = [pc EXCEPT ![r] = "resolved"]
          /\ svc' = [svc EXCEPT ![r] = _retrieval_service]
          /\ UNCHANGED response
  /\ UNCHANGED <<otherVars, appVars, _retrieval_service, bm25_results, semantic_results, methods_used,
                 fusion_details, trace, suspended_peers, raised>>

\* search_patterns: "component_type" not in request.requirements
MissingComponentType(requirements) == requirements.component_type = NoType

\* search_patterns: validate component_type, then call search
SearchPatterns(r, bm25_raises) ==
  /\ pc[r] = "resolved"
  /\ IF MissingComponentType(req[r].requirements)
     THEN /\ pc' = [pc EXCEPT ![r] = "done"]
          /\ response' = [response EXCEPT ![r] = ErrorResponse("400")]
          /\ UNCHANGED <<bm25_results, methods_used, fusion_details, trace, raised>>
     ELSE BeginSearch(r, "http", svc[r], req[r].requirements, req[r].top_k, bm25_raises)
  /\ UNCHANGED <<otherVars, appVars, _retrieval_service, req, svc, semantic_results, suspended_peers>>

\* A caller that holds a service instance and calls search itself.
DirectSearch(r, holder, requirements, top_k, bm25_raises) ==
  LET service == IF holder = "app_state" THEN app_state_service ELSE _retrieval_service IN
  /\ pc[r] = "idle"
  /\ service.present
  /\ req' = [req EXCEPT ![r] = [via |-> "direct", requirements |-> requirements, top_k |-> top_k]]
  /\ svc' = [svc EXCEPT ![r] = service]
  /\ BeginSearch(r, "direct", service, requirements, top_k, bm25_raises)
  /\ UNCHANGED <<otherVars, appVars, _retrieval_service, semantic_results, suspended_peers>>

\* The arguments RetrievalService is constructed with: every corpus with
\* and without a semantic retriever under the default fusion, and the full
\* corpus with both channels under every fusion.
ServiceConstructions ==
  { [patterns |-> patterns, semantic_retriever |-> semantic_retriever,
     weighted_fusion |-> WeightedFusion(Bm25Weight, SemanticWeight)] :
      patterns \in Corpora, semantic_retriever \in BOOLEAN }
  \cup { [patterns |-> <<1, 2, 3>>, semantic_retriever |-> TRUE, weighted_fusion |-> weighted_fusion] :
          weighted_fusion \in WeightedFusions }

Next ==
  \/ \E files \in StartupFileSets, index_builds \in BOOLEAN, semantic_init \in BOOLEAN :
       Lifespan(files, index_builds, semantic_init)
  \/ \E c \in ServiceConstructions :
       SetRetrievalService(c.patterns, c.semantic_retriever, c.weighted_fusion)
  \/ \E r \in SequentialCallers, requirements \in Requirements : ResolveDependency(r, requirements)
  \/ \E r \in SequentialCallers, bm25_raises \in BOOLEAN : SearchPatterns(r, bm25_raises)
  \/ \E r \in SequentialCallers, holder \in {"app_state", "module"}, requirements \in Requirements,
        top_k \in 0..MaxTopK, bm25_raises \in BOOLEAN :
       DirectSearch(r, holder, requirements, top_k, bm25_raises)
  \/ \E r \in SequentialCallers, answer \in SemanticLists \cup {SemanticRaise} : SemanticReturns(r, answer)


(* ---------------- concurrent requests ---------------- *)
\* Inputs of the concurrent specification: every request of Reqs may be in
\* flight while the registered service is replaced.
ConcCorpora == { <<1, 2>>, <<1, 2, 3>> }
ConcAnswers ==
  { SemanticRaise, <<>>,
    <<[id |-> 1, score |-> 90], [id |-> 2, score |-> 40]>> }

NextConc ==
  \/ Lifespan(<<1, 2>>, TRUE, TRUE)
  \/ \E patterns \in ConcCorpora :
       SetRetrievalService(patterns, TRUE, WeightedFusion(Bm25Weight, SemanticWeight))
  \/ \E r \in Reqs : ResolveDependency(r, [component_type |-> "button", props |-> {}])
  \/ \E r \in Reqs : SearchPatterns(r, FALSE)
  \/ \E r \in Reqs : DirectSearch(r, "module", [component_type |-> "button", props |-> {}], 2, FALSE)
  \/ \E r \in Reqs, answer \in ConcAnswers : SemanticReturns(r, answer)

(* ---------------- concurrent calls of search ---------------- *)
\* Inputs of the calls specification: callers that hold the registered
\* service call search on it with requirements and top_k of their own, and
\* every call suspends at the semantic await while the others run.
ConcRequirements ==
  { [component_type |-> "button", props |-> {}],
    [component_type |-> "card", props |-> {}] }
ConcTopKs == {1, 2}

NextCalls ==
  \/ SetRetrievalService(<<1, 2, 3>>, TRUE, WeightedFusion(Bm25Weight, SemanticWeight))
  \/ \E r \in Reqs, requirements \in ConcRequirements, top_k \in ConcTopKs :
       DirectSearch(r, "module", requirements, top_k, FALSE)
  \/ \E r \in Reqs, answer \in ConcAnswers : SemanticReturns(r, answer)

(* ---------------- code generation: PatternParser ---------------- *)
\* The pattern files a patterns directory may hold, by stem.
PatternFiles == {"button", "card"}

\* A patterns directory: each file is missing, valid JSON or invalid JSON.
PatternDirs == [PatternFiles -> {"missing", "valid", "invalid"}]

\* The pattern ids requests carry.
PatternIds == {"", "shadcn-button", "Button", "shadcn-card", "shadcn-nonexistent"}

\* load_pattern: pattern_id.replace("shadcn-", "").lower()
PatternName(pattern_id) ==
  CASE pattern_id = "shadcn-button" -> "button"
    [] pattern_id = "Button" -> "button"
    [] pattern_id = "shadcn-card" -> "card"
    [] pattern_id = "shadcn-nonexistent" -> "nonexistent"
    [] OTHER -> pattern_id

\* load_pattern: patterns_dir / f"{pattern_name}.json", relative to patterns_dir
PatternFile(pattern_id) == PatternName(pattern_id) \o ".json"

\* pattern_file.exists()
PatternFileExists(dir, pattern_id) ==
  /\ PatternName(pattern_id) \in PatternFiles
  /\ dir[PatternName(pattern_id)] # "missing"

NoException == [raised |-> "none", message |-> ""]
Exception(kind, message) == [raised |-> kind, message |-> message]

\* str(e) of the json.JSONDecodeError an invalid pattern file gives: the
\* file opens an object and goes on with something that is no string.
JSONDecodeError == "Expecting property name enclosed in double quotes: line 1 column 2 (char 1)"

\* load_pattern, and parse which only reads what load_pattern returned
LoadPattern(dir, pattern_id) ==
  IF ~PatternFileExists(dir, pattern_id)
  THEN Exception("FileNotFoundError", "Pattern file not found: " \o PatternFile(pattern_id))
  ELSE IF dir[PatternName(pattern_id)] = "invalid"
  THEN Exception("ValueError", "Invalid pattern JSON in " \o PatternFile(pattern_id)
                                 \o ": " \o JSONDecodeError)
  ELSE NoException

(* ---------------- code generation: GeneratorService ---------------- *)
NoGenerator == [present |-> FALSE, attributes |-> {}, llm_generator |-> "none"]

\* GeneratorService.__init__: the attributes it assigns
InitAttributes ==
  {"pattern_parser", "code_assembler", "provenance_generator", "prompt_builder",
   "exemplar_loader", "llm_generator", "code_validator", "current_stage", "stage_latencies"}

\* GeneratorService.__init__: CodeValidator(...) raises FileNotFoundError
\* when a validation script is missing, and the construction with it.
ConstructionRaises(scripts_exist) == ~scripts_exist

\* GeneratorService.__init__: the LLM generator when use_llm and a key are
\* given and its construction succeeds, the mock otherwise.
GeneratorServiceObject(use_llm, api_key, llm_init_raises) ==
  [present |-> TRUE,
   attributes |-> InitAttributes,
   llm_generator |-> IF use_llm /\ api_key /\ ~llm_init_raises THEN "llm" ELSE "mock"]

\* generate: the stages of its try block in order, each with the attribute
\* of self it reads and the value it gives current_stage ("" when none).
GenerationStages ==
  << [needs |-> "pattern_parser",          stage |-> "parsing"],
     [needs |-> "token_injector",          stage |-> "injecting"],
     [needs |-> "tailwind_generator",      stage |-> "generating"],
     [needs |-> "requirement_implementer", stage |-> "implementing"],
     [needs |-> "a11y_enhancer",           stage |-> ""],
     [needs |-> "type_generator",          stage |-> ""],
     [needs |-> "storybook_generator",     stage |-> ""],
     [needs |-> "provenance_generator",    stage |-> ""],
     [needs |-> "code_assembler",          stage |-> "assembling"] >>

\* What stage i raises: AttributeError when self lacks the collaborator,
\* and for the first stage whatever the parser raises.
StageRaises(service, dir, pattern_id, i) ==
  IF GenerationStages[i].needs \notin service.attributes
  THEN Exception("AttributeError",
         "'GeneratorService' object has no attribute '" \o GenerationStages[i].needs \o "'")
  ELSE IF i = 1 THEN LoadPattern(dir, pattern_id)
  ELSE NoException

\* The first stage that raises, Len(GenerationStages) + 1 when none does.
RECURSIVE FirstFailingStage(_, _, _, _)
FirstFailingStage(service, dir, pattern_id, i) ==
  IF i > Len(GenerationStages) THEN i
  ELSE IF StageRaises(service, dir, pattern_id, i).raised # "none" THEN i
  ELSE FirstFailingStage(service, dir, pattern_id, i + 1)

\* The value of current_stage after the stages 1..last ran (the last one
\* possibly raising): each wrapper sets it before it reads its collaborator,
\* and _assemble_code sets COMPLETE in its finally clause.
RECURSIVE StageAfter(_, _)
StageAfter(before, last) ==
  IF last = 0 THEN before
  ELSE IF GenerationStages[last].stage = "assembling" THEN "complete"
  ELSE IF GenerationStages[last].stage # "" THEN GenerationStages[last].stage
  ELSE StageAfter(before, last - 1)

\* generate, the body of its try block
GenerateBody(service, dir, pattern_id) ==
  LET i == FirstFailingStage(service, dir, pattern_id, 1) IN
  IF i > Len(GenerationStages) THEN NoException
  ELSE StageRaises(service, dir, pattern_id, i)

\* generate: the GenerationResult of a run in which every stage completed
\* (error=None), or the one its except Exception clause builds from the
\* exception: no code, no stories, no files, error=str(e).
Generate(service, dir, pattern_id) ==
  LET e == GenerateBody(service, dir, pattern_id) IN
  IF e.raised = "none"
  THEN [success |-> TRUE, error_is_none |-> TRUE, error |-> "",
        component_code |-> "component", stories_code |-> "stories",
        files |-> {"component", "stories"}]
  ELSE [success |-> FALSE, error_is_none |-> FALSE, error |-> e.message,
        component_code |-> "", stories_code |-> "", files |-> {}]

\* request.requirements: a list of dicts, each given here by the value
\* under its "category" key ("absent" when it has none); the schema asks
\* for List[Dict[str, Any]], so the value may be a list or a dict.
RequirementLists ==
  {<<>>, <<"props">>, <<"absent", "other">>, <<"list">>, <<"props", "dict">>}

\* category in result: the hash of a list or of a dict raises TypeError
Unhashable(category) == category \in {"list", "dict"}

\* _normalize_requirements: the exception of the first requirement whose
\* category cannot be hashed
RECURSIVE NormalizeRequirementsRaises(_)
NormalizeRequirementsRaises(requirements) ==
  IF requirements = <<>> THEN NoException
  ELSE IF Unhashable(Head(requirements))
  THEN Exception("TypeError", "unhashable type: '" \o Head(requirements) \o "'")
  ELSE NormalizeRequirementsRaises(Tail(requirements))

\* generate: what it raises to its caller. Its try block covers every
\* stage, but _normalize_requirements is called before the try.
GenerateRaises(service, dir, pattern_id, requirements) ==
  NormalizeRequirementsRaises(requirements)

NoGenerationRequest == [via |-> "none", pattern_id |-> "", requirements |-> <<>>]
NoGenerationResult ==
  [success |-> FALSE, error_is_none |-> TRUE, error |-> "no result",
   component_code |-> "", stories_code |-> "", files |-> {}]
NoGenerationResponse == [status |-> 0, detail |-> ""]

\* generate_component: the response for a request, by the clause that answers
GenerateComponentResponse(service, dir, pattern_id, requirements) ==
  LET e == GenerateRaises(service, dir, pattern_id, requirements)
      result == Generate(service, dir, pattern_id)
  IN
  IF pattern_id = "" THEN [status |-> 400, detail |-> "pattern_id is required"]
  ELSE IF e.raised = "FileNotFoundError"
  THEN [status |-> 404, detail |-> "Pattern not found: " \o pattern_id]
  ELSE IF e.raised = "ValueError"
  THEN [status |-> 400, detail |-> "Invalid request: " \o e.message]
  ELSE IF e.raised # "none"
  THEN [status |-> 500, detail |-> "Internal server error: " \o e.message]
  ELSE IF ~result.success
  THEN [status |-> 500, detail |-> "Code generation failed: " \o result.error]
  ELSE [status |-> 200, detail |-> ""]

GenerationIdle ==
  /\ patterns_dir = [f \in PatternFiles |-> "missing"]
  /\ generator_service = NoGenerator
  /\ current_stage = "none"
  /\ generation_request = NoGenerationRequest
  /\ generation_result = NoGenerationResult
  /\ generation_response = NoGenerationResponse
  /\ generation_raised = NoException

\* generator_service = GeneratorService(), at the import of the route module
GeneratorServiceInit(use_llm, api_key, llm_init_raises, scripts_exist) ==
  /\ ~generator_service.present
  /\ current_stage = "none"
  /\ IF ConstructionRaises(scripts_exist)
     THEN /\ current_stage' = "import failed"
          /\ UNCHANGED generator_service
     ELSE /\ generator_service' = GeneratorServiceObject(use_llm, api_key, llm_init_raises)
          /\ current_stage' = "llm_generating"
  /\ UNCHANGED <<patterns_dir, generation_request, generation_result, generation_response,
                 generation_raised>>
  /\ UNCHANGED <<retrievalVars, classifierVars, cacheVars, proposalVars, implementerVars, validatorVars>>

\* generate_component: POST /generate, from the request to its response
GenerateComponent(pattern_id, requirements) ==
  LET result == Generate(generator_service, patterns_dir, pattern_id)
      e == GenerateRaises(generator_service, patterns_dir, pattern_id, requirements)
      last == Min(FirstFailingStage(generator_service, patterns_dir, pattern_id, 1),
                  Len(GenerationStages))
  IN
  /\ generator_service.present
  /\ generation_request.via = "none"
  /\ generation_request' =
       [via |-> "http", pattern_id |-> pattern_id, requirements |-> requirements]
  /\ generation_response' =
       GenerateComponentResponse(generator_service, patterns_dir, pattern_id, requirements)
  /\ IF pattern_id = ""
     THEN UNCHANGED <<generation_result, current_stage, generation_raised>>
     ELSE IF e.raised # "none"
     THEN /\ generation_raised' = e
          /\ UNCHANGED <<generation_result, current_stage>>
     ELSE /\ generation_result' = result
          /\ current_stage' = StageAfter(current_stage, last)
          /\ UNCHANGED generation_raised
  /\ UNCHANGED <<patterns_dir, generator_service>>
  /\ UNCHANGED <<retrievalVars, classifierVars, cacheVars, proposalVars, implementerVars, validatorVars>>

\* A caller that holds the service and awaits generate itself.
DirectGenerate(pattern_id, requirements) ==
  LET result == Generate(generator_service, patterns_dir, pattern_id)
      e == GenerateRaises(generator_service, patterns_dir, pattern_id, requirements)
      last == Min(FirstFailingStage(generator_service, patterns_dir, pattern_id, 1),
                  Len(GenerationStages))
  IN
  /\ generator_service.present
  /\ generation_request.via = "none"
  /\ generation_request' =
       [via |-> "direct", pattern_id |-> pattern_id, requirements |-> requirements]
  /\ IF e.raised # "none"
     THEN /\ generation_raised' = e
          /\ UNCHANGED <<generation_result, current_stage>>
     ELSE /\ generation_result' = result
          /\ current_stage' = StageAfter(current_stage, last)
          /\ UNCHANGED generation_raised
  /\ UNCHANGED <<patterns_dir, generator_service, generation_response>>
  /\ UNCHANGED <<retrievalVars, classifierVars, cacheVars, proposalVars, implementerVars, validatorVars>>

(* ---------------- requirement proposal: RequirementOrchestrator ---------------- *)
Variants == {"sequential", "parallel"}

NoClassification == [component_type |-> "none", confidence |-> 0]

\* What the classifier answers: a classification, or "raise".
ClassifierAnswers ==
  {[raises |-> TRUE, classification |-> NoClassification]} \cup
  {[raises |-> FALSE, classification |-> [component_type |-> t, confidence |-> c]] :
     t \in {"button", "card"}, c \in {50, 90}}

\* What happens inside PropsProposer.propose: a list of proposals is parsed,
\* or an exception is raised, before anything was parsed or after (logging
\* the parsed proposals may raise too).
ProposerAnswers ==
  {[raises |-> TRUE, proposals |-> p] : p \in {<<>>, <<"variant">>}} \cup
  {[raises |-> FALSE, proposals |-> p] : p \in {<<>>, <<"variant">>, <<"variant", "size">>}}

\* PropsProposer.propose: the proposals, or [] when anything raised
Propose(answer) == IF answer.raises THEN <<>> ELSE answer.proposals

\* RequirementState(figma_data=..., tokens=...): no classification, empty proposal lists
RequirementState(figma_data, tokens) ==
  [figma_data |-> figma_data,
   tokens |-> tokens,
   classification |-> NoClassification,
   props_proposals |-> <<>>,
   events_proposals |-> <<>>,
   states_proposals |-> <<>>,
   accessibility_proposals |-> <<>>,
   error |-> FALSE,
   completed |-> FALSE]

ProposalIdle ==
  /\ agents = [classifier |-> [raises |-> TRUE, classification |-> NoClassification],
               props_proposer |-> [raises |-> TRUE, proposals |-> <<>>]]
  /\ orch_pc = [v \in Variants |-> "idle"]
  /\ requirement_state = [v \in Variants |-> RequirementState(FALSE, FALSE)]

\* Both variants are called with the same image, figma_data and tokens and
\* meet the same agents.
ProposalStart ==
  /\ agents \in [classifier : ClassifierAnswers, props_proposer : ProposerAnswers]
  /\ orch_pc = [v \in Variants |-> "classifying"]
  /\ \E figma_data \in BOOLEAN, tokens \in BOOLEAN :
       requirement_state = [v \in Variants |-> RequirementState(figma_data, tokens)]

\* except Exception: state.error, state.completed_at, raise
Failed(v) ==
  /\ orch_pc' = [orch_pc EXCEPT ![v] = "raised"]
  /\ requirement_state' = [requirement_state EXCEPT ![v].error = TRUE, ![v].completed = TRUE]

\* propose_requirements, resumed when the classifier answers: step 1, then
\* the call of the props proposer.
ProposeRequirementsClassified ==
  /\ orch_pc["sequential"] = "classifying"
  /\ IF agents.classifier.raises
     THEN Failed("sequential")
     ELSE /\ orch_pc' = [orch_pc EXCEPT !["sequential"] = "proposing_props"]
          /\ requirement_state' = [requirement_state EXCEPT
               !["sequential"].classification = agents.classifier.classification]
  /\ UNCHANGED agents
  /\ UNCHANGED <<retrievalVars, classifierVars, cacheVars, generationVars, implementerVars, validatorVars>>

\* A resumption in which a failure of the props proposer reaches the
\* orchestrator's except clause.
ProposeRequirementsProposedAborting ==
  /\ orch_pc["sequential"] = "proposing_props"
  /\ IF agents.props_proposer.raises
     THEN Failed("sequential")
     ELSE /\ orch_pc' = [orch_pc EXCEPT !["sequential"] = "returned"]
          /\ requirement_state' = [requirement_state EXCEPT
               !["sequential"].props_proposals = agents.props_proposer.proposals,
               !["sequential"].completed = TRUE]
  /\ UNCHANGED agents
  /\ UNCHANGED <<retrievalVars, classifierVars, cacheVars, generationVars, implementerVars, validatorVars>>

\* propose_requirements, resumed when the props proposer answers: step 2,
\* completion, return.
ProposeRequirementsProposed ==
  /\ orch_pc["sequential"] = "proposing_props"
  /\ orch_pc' = [orch_pc EXCEPT !["sequential"] = "returned"]
  /\ requirement_state' = [requirement_state EXCEPT
       !["sequential"].props_proposals = Propose(agents.props_proposer),
       !["sequential"].completed = TRUE]
  /\ UNCHANGED agents
  /\ UNCHANGED <<retrievalVars, classifierVars, cacheVars, generationVars, implementerVars, validatorVars>>

\* propose_requirements_parallel, resumed when the classifier answers:
\* step 1, completion, return. No proposer is called.
ProposeRequirementsParallel ==
  /\ orch_pc["parallel"] = "classifying"
  /\ IF agents.classifier.raises
     THEN Failed("parallel")
     ELSE /\ orch_pc' = [orch_pc EXCEPT !["parallel"] = "returned"]
          /\ requirement_state' = [requirement_state EXCEPT
               !["parallel"].classification = agents.classifier.classification,
               !["parallel"].completed = TRUE]
  /\ UNCHANGED agents
  /\ UNCHANGED <<retrievalVars, classifierVars, cacheVars, generationVars, implementerVars, validatorVars>>

\* RequirementState.get_all_proposals, and the route's proposals_by_category
AllProposals(state) ==
  [props |-> state.props_proposals,
   events |-> state.events_proposals,
   states |-> state.states_proposals,
   accessibility |-> state.accessibility_proposals]

(* ---------------- RequirementImplementer: the props interface ---------------- *)
\* A prop definition is a dict: keys holds the keys it has besides name, and
\* the field of an absent key is a default that is never read.
PropKeySets ==
  {{}, {"type"}, {"values"}, {"type", "values"}, {"type", "values", "required"},
   {"type", "signature"}, {"values", "required", "description"}}

Props ==
  UNION {
    {[name |-> "variant", keys |-> k, type |-> t, values |-> v, required |-> r,
      signature |-> IF "signature" \in k THEN "(event: MouseEvent) => void" ELSE "",
      description |-> IF "description" \in k THEN "Visual style variant" ELSE ""] :
       t \in (IF "type" \in k THEN {"string", "boolean", "function", "enum"} ELSE {""}),
       v \in (IF "values" \in k THEN {<<>>, <<"default", "secondary", "ghost">>} ELSE {<<>>}),
       r \in (IF "required" \in k THEN BOOLEAN ELSE {FALSE})} :
    k \in PropKeySets }

\* The lists of at most n prop definitions.
RECURSIVE PropLists(_)
PropLists(n) ==
  IF n = 0 THEN {<<>>}
  ELSE PropLists(n - 1) \cup
       {Append(l, p) : l \in {m \in PropLists(n - 1) : Len(m) = n - 1}, p \in Props}

\* " | ".join(quoted_values) with quoted_values = [f'"{v}"' for v in values]
RECURSIVE UnionType(_)
UnionType(values) ==
  IF Len(values) = 0 THEN ""
  ELSE IF Len(values) = 1 THEN "\"" \o values[1] \o "\""
  ELSE "\"" \o values[1] \o "\"" \o " | " \o UnionType(Tail(values))

\* _infer_prop_type
InferPropType(prop) ==
  IF "type" \in prop.keys /\ prop.type \in {"string", "number", "boolean"} THEN prop.type
  ELSE IF "type" \in prop.keys /\ prop.type = "function"
  THEN (IF "signature" \in prop.keys THEN prop.signature ELSE "() => void")
  ELSE IF "type" \in prop.keys /\ prop.type = "object" THEN "Record<string, any>"
  ELSE IF "type" \in prop.keys /\ prop.type = "array" THEN "any[]"
  ELSE IF "values" \in prop.keys /\ prop.values # <<>> THEN UnionType(prop.values)
  ELSE "string"

\* "?" if not prop.get("required", False) else ""
OptionalMark(prop) == IF "required" \in prop.keys /\ prop.required THEN "" ELSE "?"

\* _generate_props_interface, the lines one prop contributes
PropLines(prop) ==
  (IF "description" \in prop.keys /\ prop.description # ""
   THEN <<"  /** " \o prop.description \o " */">> ELSE <<>>)
  \o <<"  " \o prop.name \o OptionalMark(prop) \o ": " \o InferPropType(prop) \o ";">>

RECURSIVE AllPropLines(_)
AllPropLines(ps) == IF ps = <<>> THEN <<>> ELSE PropLines(Head(ps)) \o AllPropLines(Tail(ps))

\* _generate_props_interface: the lines it joins with "\n"
GeneratePropsInterface(ps, name) ==
  IF ps = <<>>
  THEN <<"export interface " \o name \o "Props {", "  // No additional props", "}">>
  ELSE <<"export interface " \o name \o "Props {">> \o AllPropLines(ps) \o <<"}">>

\* The index, in the lines of the interface, of the definition line of prop i.
PropLineIndex(ps, i) == 1 + Len(AllPropLines(SubSeq(ps, 1, i)))

ImplementerIdle ==
  /\ props = <<>>
  /\ component_name = ""
  /\ interface_lines = <<>>

ImplementerStart ==
  /\ props \in PropLists(MaxProps)
  /\ component_name = "Button"
  /\ interface_lines = <<>>

\* RequirementImplementer.implement, its props interface
Implement ==
  /\ interface_lines = <<>>
  /\ interface_lines' = GeneratePropsInterface(props, component_name)
  /\ UNCHANGED <<props, component_name>>
  /\ UNCHANGED <<retrievalVars, classifierVars, cacheVars, generationVars, proposalVars, validatorVars>>

(* ---------------- CodeValidator.validate_and_fix ---------------- *)
\* What one validation script gives for the code: no finding, warnings
\* only, errors, a crash of the subprocess (turned into one error by
\* _validate_typescript and _validate_eslint), or JSON that is not an
\* object, on which _parse_validation_result raises.
ScriptAnswers == {"clean", "warnings", "errors", "crash", "malformed"}

\* len of the error list _parse_validation_result gives
ErrorCount(answer) == IF answer \in {"errors", "crash"} THEN 1 ELSE 0

\* len of the warning list _parse_validation_result gives
WarningCount(answer) == IF answer \in {"warnings", "errors"} THEN 1 ELSE 0

\* result.get on a value that is not a dict
ParseRaises(answer) == answer = "malformed"

NoRound ==
  [code |-> 0, ts_errors |-> 0, eslint_errors |-> 0, ts_warnings |-> 0, eslint_warnings |-> 0]

\* One round: the code the two scripts were given, and the lengths of the
\* four lists made from their answers.
Round(ts, eslint, code) ==
  [code |-> code,
   ts_errors |-> ErrorCount(ts), eslint_errors |-> ErrorCount(eslint),
   ts_warnings |-> WarningCount(ts), eslint_warnings |-> WarningCount(eslint)]

\* A round counted valid as soon as the TypeScript check found no error.
ValidTypeScriptOnly(round) == round.ts_errors = 0

\* valid = compilation_success and lint_success
Valid(round) == round.ts_errors = 0 /\ round.eslint_errors = 0

NoValidationResult ==
  [valid |-> FALSE, code |-> 0, attempts |-> 0, round |-> NoRound,
   compilation_success |-> FALSE, lint_success |-> FALSE]

\* ValidationResult(valid=..., code=current_code, attempts=..., the lists
\* of the round, compilation_success=..., lint_success=...)
ValidationResult(valid, code, attempts, round) ==
  [valid |-> valid, code |-> code, attempts |-> attempts, round |-> round,
   compilation_success |-> round.ts_errors = 0,
   lint_success |-> round.eslint_errors = 0]

\* A loop that asks for a fix after every invalid round, the last included.
FixWantedEveryRound(a, max_retries) == TRUE

\* if attempt < self.max_retries
FixWanted(a, max_retries) == a < max_retries

ValidatorIdle ==
  /\ validator = [max_retries |-> 0, llm_generator |-> FALSE]
  /\ val_pc = "idle"
  /\ attempt = 0
  /\ current_code = 0
  /\ rounds = 0
  /\ fix_calls = 0
  /\ fix_failures = 0
  /\ last_round = NoRound
  /\ validation_result = NoValidationResult

\* CodeValidator(llm_generator=..., max_retries=...), and the entry of
\* validate_and_fix up to its first gather.
ValidatorStart ==
  /\ validator \in [max_retries : 0..MaxRetriesBound, llm_generator : BOOLEAN]
  /\ val_pc = "validating"
  /\ attempt = 0
  /\ current_code = 0
  /\ rounds = 0
  /\ fix_calls = 0
  /\ fix_failures = 0
  /\ last_round = NoRound
  /\ validation_result = NoValidationResult

\* validate_and_fix, the end of one loop iteration that requested no fix:
\* the next iteration, or the return after the last one.
NextAttempt(round, code) ==
  IF attempt + 1 < validator.max_retries + 1
  THEN /\ attempt' = attempt + 1
       /\ val_pc' = "validating"
       /\ UNCHANGED validation_result
  ELSE /\ val_pc' = "returned"
       /\ validation_result' =
            ValidationResult(FALSE, code, validator.max_retries + 1, round)
       /\ UNCHANGED attempt

\* validate_and_fix, resumed when both validations of a round have
\* answered: parse, return when valid, request a fix or go on.
ValidationReturns(ts, eslint) ==
  /\ val_pc = "validating"
  /\ rounds' = rounds + 1
  /\ IF ParseRaises(ts) \/ ParseRaises(eslint)
     THEN /\ val_pc' = "raised"
          /\ UNCHANGED <<attempt, fix_calls, last_round, validation_result>>
     ELSE /\ last_round' = Round(ts, eslint, current_code)
          /\ IF Valid(Round(ts, eslint, current_code))
             THEN /\ val_pc' = "returned"
                  /\ validation_result' =
                       ValidationResult(TRUE, current_code, attempt + 1,
                                        Round(ts, eslint, current_code))
                  /\ UNCHANGED <<attempt, fix_calls>>
             ELSE IF FixWanted(attempt, validator.max_retries) /\ validator.llm_generator
             THEN /\ val_pc' = "fixing"
                  /\ fix_calls' = fix_calls + 1
                  /\ UNCHANGED <<attempt, validation_result>>
             ELSE /\ NextAttempt(Round(ts, eslint, current_code), current_code)
                  /\ UNCHANGED fix_calls
  /\ UNCHANGED <<validator, current_code, fix_failures>>
  /\ UNCHANGED <<retrievalVars, classifierVars, cacheVars, generationVars, proposalVars, implementerVars>>

\* A resumption that lets the exception of the fix call end validate_and_fix.
LlmFixReturnsPropagating(fix_raises) ==
  /\ val_pc = "fixing"
  /\ fix_failures' = IF fix_raises THEN fix_failures + 1 ELSE fix_failures
  /\ IF fix_raises
     THEN /\ val_pc' = "raised"
          /\ UNCHANGED <<current_code, attempt, validation_result>>
     ELSE /\ current_code' = current_code + 1
          /\ NextAttempt(last_round, current_code + 1)
  /\ UNCHANGED <<validator, rounds, fix_calls, last_round>>
  /\ UNCHANGED <<retrievalVars, classifierVars, cacheVars, generationVars, proposalVars, implementerVars>>

\* validate_and_fix, resumed when _llm_fix_errors answers with new code or
\* raises (the exception is dropped and the code kept).
LlmFixReturns(fix_raises) ==
  /\ val_pc = "fixing"
  /\ current_code' = IF fix_raises THEN current_code ELSE current_code + 1
  /\ fix_failures' = IF fix_raises THEN fix_failures + 1 ELSE fix_failures
  /\ NextAttempt(last_round, IF fix_raises THEN current_code ELSE current_code + 1)
  /\ UNCHANGED <<validator, rounds, fix_calls, last_round>>
  /\ UNCHANGED <<retrievalVars, classifierVars, cacheVars, generationVars, proposalVars, implementerVars>>

(* ---------------- ComponentClassifier.classify_component ---------------- *)
\* What one attempt meets: a classification, or an exception of the vision
\* call, of json.loads or of _parse_classification_result.
AttemptAnswers ==
  {[raises |-> k, classification |-> NoClassification] :
     k \in {"api", "json", "parse"}} \cup
  {[raises |-> "none", classification |-> a.classification] :
     a \in {b \in ClassifierAnswers : ~b.raises}}

\* The last retry allowed as well when retry_count has reached max_retries.
RetryWantedInclusive(count) == count <= ClassifierMaxRetries

\* if retry_count < self.max_retries
RetryWanted(count) == count < ClassifierMaxRetries

ClassifierIdle ==
  /\ classify_pc = "idle"
  /\ retry_count = 0
  /\ attempt_log = <<>>
  /\ classification = NoClassification

\* classify_component(image, figma_data), retry_count at its default
ClassifierStart ==
  /\ classify_pc = "calling"
  /\ retry_count = 0
  /\ attempt_log = <<>>
  /\ classification = NoClassification

\* classify_component, one attempt: the try block, and the handler that
\* calls classify_component again or raises ComponentClassifierError.
ClassifyAttempt(answer) ==
  /\ classify_pc = "calling"
  /\ attempt_log' = Append(attempt_log, answer)
  /\ IF answer.raises = "none"
     THEN /\ classify_pc' = "returned"
          /\ classification' = answer.classification
          /\ UNCHANGED retry_count
     ELSE IF RetryWanted(retry_count)
     THEN /\ retry_count' = retry_count + 1
          /\ UNCHANGED <<classify_pc, classification>>
     ELSE /\ classify_pc' = "raised"
          /\ UNCHANGED <<retry_count, classification>>
  /\ UNCHANGED <<retrievalVars, generationVars, proposalVars, implementerVars,
                 validatorVars, cacheVars>>

(* ---------------- FigmaCache ---------------- *)
\* Strings are sequences of tokens; ":" and "*" are tokens of their own, so
\* that a file key may hold either.
\* The file keys entries are cached for, and those invalidation is asked for.
CachedFileKeys == {<<"a">>, <<"b">>, <<"a", ":", "b">>}
FileKeys == CachedFileKeys \cup {<<"*">>}
Endpoints == {"file", "styles"}
Metrics == {"hits", "misses", "latency"}

\* The responses cached: a dict with content, or the empty dict.
CachedData == {"data", "empty"}

\* The coroutines that call the cache; their awaits interleave.
CacheCallers == {"c1", "c2"}

\* self.cache_prefix = "figma:file", self.metrics_prefix = "figma:metrics"
CachePrefix == <<"figma", ":", "file">>
MetricsPrefix == <<"figma", ":", "metrics">>

\* _build_key: f"{self.cache_prefix}:{file_key}:{endpoint}"
BuildKey(file_key, endpoint) == CachePrefix \o <<":">> \o file_key \o <<":", endpoint>>

\* _build_metrics_key: f"{self.metrics_prefix}:{file_key}:{metric}"
BuildMetricsKey(file_key, metric) == MetricsPrefix \o <<":">> \o file_key \o <<":", metric>>

\* invalidate_file: f"{self.cache_prefix}:{file_key}:*"
EntryPattern(file_key) == CachePrefix \o <<":">> \o file_key \o <<":", "*">>

\* _clear_metrics: f"{self.metrics_prefix}:{file_key}:*"
MetricsPattern(file_key) == MetricsPrefix \o <<":">> \o file_key \o <<":", "*">>

\* The match of a key against a pattern in which "*" stands for any string.
RECURSIVE GlobMatch(_, _)
GlobMatch(pattern, key) ==
  IF pattern = <<>> THEN key = <<>>
  ELSE IF Head(pattern) = "*"
  THEN GlobMatch(Tail(pattern), key) \/ (key # <<>> /\ GlobMatch(pattern, Tail(key)))
  ELSE key # <<>> /\ Head(key) = Head(pattern) /\ GlobMatch(Tail(pattern), Tail(key))

\* BaseCache.delete_pattern: the keys it deletes
Matching(store, pattern) == {key \in DOMAIN store : GlobMatch(pattern, key)}

\* BaseCache.delete_pattern: the store it leaves
DeletePattern(store, pattern) ==
  [key \in DOMAIN store \ Matching(store, pattern) |-> store[key]]

\* BaseCache.get: the value stored, or None
Get(store, key) == IF key \in DOMAIN store THEN store[key] ELSE "None"

\* BaseCache.set
Set(store, key, value) == (key :> value) @@ store

\* BaseCache.incr, and the rpush of one latency sample
Incr(store, key) ==
  IF key \in DOMAIN store THEN [store EXCEPT ![key] = @ + 1] ELSE (key :> 1) @@ store

\* get_file: `if cached:`, false for None and for the empty dict
Truthy(cached) == cached \notin {"None", "empty"}

NoCacheCall ==
  [name |-> "none", pc |-> "idle", file_key |-> <<>>, endpoint |-> "",
   returned |-> "None", deleted |-> 0]

CacheIdle ==
  /\ redis = <<>>
  /\ cache_calls = [c \in CacheCallers |-> NoCacheCall]
  /\ cache_ops = 0

\* get_file, up to the return of `await self.get(cache_key)`
GetFile(c, file_key, endpoint) ==
  /\ cache_calls[c].pc \in {"idle", "done"}
  /\ cache_ops < MaxCacheOps
  /\ cache_ops' = cache_ops + 1
  /\ cache_calls' = [cache_calls EXCEPT ![c] =
       [name |-> "get", pc |-> "looked_up", file_key |-> file_key, endpoint |-> endpoint,
        returned |-> Get(redis, BuildKey(file_key, endpoint)), deleted |-> 0]]
  /\ UNCHANGED redis
  /\ UNCHANGED <<retrievalVars, generationVars, proposalVars, implementerVars,
                 validatorVars, classifierVars>>

\* get_file on a falsy value: _track_miss, then the return
TrackMiss(c) ==
  /\ cache_calls[c].pc = "looked_up"
  /\ ~Truthy(cache_calls[c].returned)
  /\ redis' = Incr(redis, BuildMetricsKey(cache_calls[c].file_key, "misses"))
  /\ cache_calls' = [cache_calls EXCEPT ![c].pc = "done"]
  /\ UNCHANGED cache_ops
  /\ UNCHANGED <<retrievalVars, generationVars, proposalVars, implementerVars,
                 validatorVars, classifierVars>>

\* get_file on a truthy value: _track_hit up to the return of its incr
TrackHit(c) ==
  /\ cache_calls[c].pc = "looked_up"
  /\ Truthy(cache_calls[c].returned)
  /\ redis' = Incr(redis, BuildMetricsKey(cache_calls[c].file_key, "hits"))
  /\ cache_calls' = [cache_calls EXCEPT ![c].pc = "hit_counted"]
  /\ UNCHANGED cache_ops
  /\ UNCHANGED <<retrievalVars, generationVars, proposalVars, implementerVars,
                 validatorVars, classifierVars>>

\* _track_hit: await redis.rpush(latency_key, ...), one more sample
TrackLatency(c) ==
  /\ cache_calls[c].pc = "hit_counted"
  /\ redis' = Incr(redis, BuildMetricsKey(cache_calls[c].file_key, "latency"))
  /\ cache_calls' = [cache_calls EXCEPT ![c].pc = "sample_pushed"]
  /\ UNCHANGED cache_ops
  /\ UNCHANGED <<retrievalVars, generationVars, proposalVars, implementerVars,
                 validatorVars, classifierVars>>

\* _track_hit: await redis.ltrim(latency_key, -100, -1), which keeps the
\* last samples of a list that is still there
TrimLatency(c) ==
  LET latency_key == BuildMetricsKey(cache_calls[c].file_key, "latency") IN
  /\ cache_calls[c].pc = "sample_pushed"
  /\ redis' = IF latency_key \in DOMAIN redis /\ redis[latency_key] > LatencySamples
              THEN [redis EXCEPT ![latency_key] = LatencySamples]
              ELSE redis
  /\ cache_calls' = [cache_calls EXCEPT ![c].pc = "trimmed"]
  /\ UNCHANGED cache_ops
  /\ UNCHANGED <<retrievalVars, generationVars, proposalVars, implementerVars,
                 validatorVars, classifierVars>>

\* _track_hit: await redis.expire(latency_key, 3600), then get_file returns
ExpireLatency(c) ==
  /\ cache_calls[c].pc = "trimmed"
  /\ cache_calls' = [cache_calls EXCEPT ![c].pc = "done"]
  /\ UNCHANGED <<redis, cache_ops>>
  /\ UNCHANGED <<retrievalVars, generationVars, proposalVars, implementerVars,
                 validatorVars, classifierVars>>

\* set_file
SetFile(c, file_key, endpoint, data) ==
  /\ cache_calls[c].pc \in {"idle", "done"}
  /\ cache_ops < MaxCacheOps
  /\ cache_ops' = cache_ops + 1
  /\ redis' = Set(redis, BuildKey(file_key, endpoint), data)
  /\ cache_calls' = [cache_calls EXCEPT ![c] =
       [name |-> "set", pc |-> "done", file_key |-> file_key, endpoint |-> endpoint,
        returned |-> "None", deleted |-> 0]]
  /\ UNCHANGED <<retrievalVars, generationVars, proposalVars, implementerVars,
                 validatorVars, classifierVars>>

\* invalidate_file, up to the return of its delete_pattern: the entries
\* are deleted and counted.
InvalidateFile(c, file_key) ==
  /\ cache_calls[c].pc \in {"idle", "done"}
  /\ cache_ops < MaxCacheOps
  /\ cache_ops' = cache_ops + 1
  /\ redis' = DeletePattern(redis, EntryPattern(file_key))
  /\ cache_calls' = [cache_calls EXCEPT ![c] =
       [name |-> "invalidate", pc |-> "entries_deleted", file_key |-> file_key,
        endpoint |-> "", returned |-> "None",
        deleted |-> Cardinality(Matching(redis, EntryPattern(file_key)))]]
  /\ UNCHANGED <<retrievalVars, generationVars, proposalVars, implementerVars,
                 validatorVars, classifierVars>>

\* invalidate_file: _clear_metrics, then the return of the count
ClearMetrics(c) ==
  /\ cache_calls[c].pc = "entries_deleted"
  /\ redis' = DeletePattern(redis, MetricsPattern(cache_calls[c].file_key))
  /\ cache_calls' = [cache_calls EXCEPT ![c].pc = "done"]
  /\ UNCHANGED cache_ops
  /\ UNCHANGED <<retrievalVars, generationVars, proposalVars, implementerVars,
                 validatorVars, classifierVars>>

(* ---------------- the specifications ---------------- *)
Init ==
  /\ RetrievalIdle /\ GenerationIdle /\ ProposalIdle /\ ImplementerIdle /\ ValidatorIdle
  /\ ClassifierIdle /\ CacheIdle

Spec == Init /\ [][Next]_vars

SpecConc == Init /\ [][NextConc]_vars

SpecCalls == Init /\ [][NextCalls]_vars

\* Code generation: a patterns directory, the construction of the service,
\* one request.
GenerationStart ==
  /\ patterns_dir \in PatternDirs
  /\ generator_service = NoGenerator
  /\ current_stage = "none"
  /\ generation_request = NoGenerationRequest
  /\ generation_result = NoGenerationResult
  /\ generation_response = NoGenerationResponse
  /\ generation_raised = NoException

InitGeneration ==
  /\ RetrievalIdle /\ GenerationStart /\ ProposalIdle /\ ImplementerIdle /\ ValidatorIdle
  /\ ClassifierIdle /\ CacheIdle

NextGeneration ==
  \/ \E use_llm \in BOOLEAN, api_key \in BOOLEAN, llm_init_raises \in BOOLEAN,
        scripts_exist \in BOOLEAN :
       GeneratorServiceInit(use_llm, api_key, llm_init_raises, scripts_exist)
  \/ \E pattern_id \in PatternIds, requirements \in RequirementLists :
       GenerateComponent(pattern_id, requirements)
  \/ \E pattern_id \in PatternIds, requirements \in RequirementLists :
       DirectGenerate(pattern_id, requirements)

SpecGeneration == InitGeneration /\ [][NextGeneration]_vars

\* Requirement proposal: the two variants on the same inputs.
InitProposal ==
  /\ RetrievalIdle /\ GenerationIdle /\ ProposalStart /\ ImplementerIdle /\ ValidatorIdle
  /\ ClassifierIdle /\ CacheIdle

NextProposal ==
  \/ ProposeRequirementsClassified
  \/ ProposeRequirementsProposed
  \/ ProposeRequirementsParallel

SpecProposal == InitProposal /\ [][NextProposal]_vars

\* The props interface of a bounded list of prop definitions.
InitImplementer ==
  /\ RetrievalIdle /\ GenerationIdle /\ ProposalIdle /\ ImplementerStart /\ ValidatorIdle
  /\ ClassifierIdle /\ CacheIdle

NextImplementer == Implement

SpecImplementer == InitImplementer /\ [][NextImplementer]_vars

\* validate_and_fix: the subprocesses and the LLM call answer eventually.
InitValidator ==
  /\ RetrievalIdle /\ GenerationIdle /\ ProposalIdle /\ ImplementerIdle /\ ValidatorStart
  /\ ClassifierIdle /\ CacheIdle

NextValidator ==
  \/ \E ts \in ScriptAnswers, eslint \in ScriptAnswers : ValidationReturns(ts, eslint)
  \/ \E fix_raises \in BOOLEAN : LlmFixReturns(fix_raises)

SpecValidator == InitValidator /\ [][NextValidator]_vars /\ WF_vars(NextValidator)

\* classify_component: the vision call answers or fails eventually.
InitClassifier ==
  /\ RetrievalIdle /\ GenerationIdle /\ ProposalIdle /\ ImplementerIdle /\ ValidatorIdle
  /\ ClassifierStart /\ CacheIdle

NextClassifier == \E answer \in AttemptAnswers : ClassifyAttempt(answer)

SpecClassifier == InitClassifier /\ [][NextClassifier]_vars /\ WF_vars(NextClassifier)

\* The cache: a bounded number of operations on an empty store.
NextCache ==
  \/ \E c \in CacheCallers, file_key \in CachedFileKeys, endpoint \in Endpoints :
       GetFile(c, file_key, endpoint)
  \/ \E c \in CacheCallers : TrackMiss(c)
  \/ \E c \in CacheCallers : TrackHit(c)
  \/ \E c \in CacheCallers : TrackLatency(c)
  \/ \E c \in CacheCallers : TrimLatency(c)
  \/ \E c \in CacheCallers : ExpireLatency(c)
  \/ \E c \in CacheCallers, file_key \in CachedFileKeys, endpoint \in Endpoints,
        data \in CachedData : SetFile(c, file_key, endpoint, data)
  \/ \E c \in CacheCallers, file_key \in FileKeys : InvalidateFile(c, file_key)
  \/ \E c \in CacheCallers : ClearMetrics(c)

SpecCache == Init /\ [][NextCache]_vars

(* ---------------- observations ---------------- *)
Done(r) == pc[r] = "done"
Succeeded(r) == response[r].status \in {"200", "returned"}
Items(r) == response[r].patterns
FromFusion(r) == \E i \in 1..Len(trace[r]) : trace[r][i].step = "fusion"
FromFallback(r) == \E i \in 1..Len(trace[r]) : trace[r][i].step = "fallback"
StepCount(r, name) == Cardinality({ i \in 1..Len(trace[r]) : trace[r][i].step = name })
Bm25OnlyWeights == [bm25 |-> FullWeight, semantic |-> 0]

(* ---------------- C1 ---------------- *)
\* C1: a search that returns, for a requirement with component_type and a
\* top_k >= 0, returns at most top_k patterns whose final_rank values are
\* 1, 2, ..., n in response order, from fusion and from the fallback alike.
C1_RanksContiguous ==
  \A r \in Reqs :
    (Done(r) /\ Succeeded(r) /\ req[r].requirements.component_type # NoType) =>
      /\ Len(Items(r)) <= req[r].top_k
      /\ \A i \in 1..Len(Items(r)) : Items(r)[i].ranking_details.final_rank = i

C1_Witness ==
  \E r \in Reqs :
    /\ Done(r) /\ Succeeded(r) /\ FromFusion(r)
    /\ Len(Items(r)) = 2 /\ req[r].top_k = 2
    /\ Items(r)[2].ranking_details.final_rank = 2

(* ---------------- C2 ---------------- *)
\* C2: when the semantic retriever raises, search still returns
\* successfully, with methods_used the lexical channel alone, weights
\* {lexical 1.0, semantic 0.0}, and every final_score equal to the item's
\* lexical score.
C2_SemanticFailureAbsorbed ==
  \A r \in Reqs :
    (Done(r) /\ raised[r] = "semantic") =>
      /\ Succeeded(r)
      /\ response[r].methods_used = <<"bm25">>
      /\ response[r].weights = Bm25OnlyWeights
      /\ \A i \in 1..Len(Items(r)) :
           Items(r)[i].ranking_details.final_score = Items(r)[i].ranking_details.bm25_score

(* ---------------- C3 ---------------- *)
\* C3: without a semantic retriever, search makes no semantic call and
\* succeeds with methods_used the lexical channel alone; every item has
\* semantic_score 0.0, semantic_rank null, final_score its lexical score
\* and final_rank its lexical rank.
C3_NoSemanticRetriever ==
  \A r \in Reqs :
    (Done(r) /\ ~svc[r].semantic /\ svc[r].present /\ raised[r] = "none") =>
      /\ StepCount(r, "semantic") = 0
      /\ Succeeded(r)
      /\ response[r].methods_used = <<"bm25">>
      /\ \A i \in 1..Len(Items(r)) :
           LET d == Items(r)[i].ranking_details IN
           /\ d.semantic_score = 0
           /\ d.semantic_rank = NoneRank
           /\ d.final_score = d.bm25_score
           /\ d.final_rank = d.bm25_rank

(* ---------------- C4 ---------------- *)
\* C4: a request over HTTP whose requirements lack component_type is
\* always answered 400, and no stage of the retrieval pipeline runs for it.
C4_Always400 ==
  \A r \in Reqs :
    (Done(r) /\ req[r].via = "http" /\ req[r].requirements.component_type = NoType) =>
      /\ response[r].status = "400"
      /\ trace[r] = <<>>

(* ---------------- C5 ---------------- *)
\* C5: the weights of retrieval_metadata are the weights applied to the
\* returned items: they equal the weights of every fused detail, and are
\* {lexical 1.0, semantic 0.0} whenever the items come from the fallback.
C5_MetadataWeightsApplied ==
  \A r \in Reqs :
    (Done(r) /\ Succeeded(r)) =>
      /\ \A i \in 1..Len(fusion_details[r]) :
           fusion_details[r][i].weights = response[r].weights
      /\ FromFallback(r) => response[r].weights = Bm25OnlyWeights

(* ---------------- C6 ---------------- *)
\* C6: when startup found an empty corpus, a search request over HTTP is
\* answered with patterns [] and total_patterns_searched 0, not an error.
C6_EmptyCorpusServed ==
  \A r \in Reqs :
    (/\ Done(r) /\ req[r].via = "http"
     /\ req[r].requirements.component_type # NoType
     /\ LoadPatterns(startup.files) = <<>>
     /\ svc[r].patterns = <<>>
     /\ raised[r] \notin {"bm25", "semantic"}) =>
      /\ response[r].status = "200"
      /\ Items(r) = <<>>
      /\ response[r].total_patterns_searched = 0

(* ---------------- C7 ---------------- *)
\* C7: search with top_k = 0 returns patterns [] without error on the
\* fusion path and on the fallback path, and never calls the explainer.
C7_TopKZero ==
  \A r \in Reqs :
    (/\ Done(r) /\ req[r].top_k = 0
     /\ req[r].requirements.component_type # NoType
     /\ raised[r] \notin {"bm25", "semantic"}) =>
      /\ Succeeded(r)
      /\ Items(r) = <<>>
      /\ StepCount(r, "explain") = 0

C7_Witness ==
  \E r \in Reqs :
    /\ Done(r) /\ req[r].top_k = 0 /\ FromFusion(r)
    /\ Len(bm25_results[r]) = 2 /\ Items(r) = <<>>

(* ---------------- C8 ---------------- *)
\* C8: when the lexical search raises, it is not called again, no semantic
\* search, fusion or explanation follows, and the caller gets the failure:
\* the exception itself, or HTTP 500 through the route.
C8_LexicalFailureFatal ==
  \A r \in Reqs :
    (Done(r) /\ raised[r] = "bm25") =>
      /\ trace[r] = <<Step("query", 0), Step("bm25", 0)>>
      /\ response[r].status = IF req[r].via = "http" THEN "500" ELSE "raised"
      /\ Items(r) = <<>>

C8_Witness ==
  \E r \in Reqs :
    /\ Done(r) /\ raised[r] = "bm25" /\ req[r].via = "http"
    /\ svc[r].semantic /\ response[r].status = "500"

(* ---------------- C9 ---------------- *)
\* C9: when explaining one fused item fails, search still returns every
\* fused item in rank order.
C9_ExplainFailureAbsorbed ==
  \A r \in Reqs :
    (Done(r) /\ raised[r] = "explain") =>
      /\ Succeeded(r)
      /\ Len(Items(r)) = Len(fusion_details[r])
      /\ \A i \in 1..Len(Items(r)) : Items(r)[i].id = fusion_details[r][i].id

(* ---------------- C10 ---------------- *)
\* C10: when the pattern library cannot be loaded or the lexical index
\* cannot be built, startup does not complete into serving.
C10_FailFastAtStartup == startup.failed => phase # "serving"

(* ---------------- C12 ---------------- *)
Searched(r) == pc[r] \in {"await_semantic", "done"} /\ raised[r] \notin {"build", "bm25"} /\ trace[r] # <<>>

\* C12: under any interleaving of set_retrieval_service with requests in
\* flight, a request works on one service from its start to its end: its
\* lexical candidates are those of that service's corpus, its items are
\* patterns of that corpus and its total_patterns_searched is the size of
\* that corpus, whichever service is registered by then.
C12_ReloadAtomic ==
  \A r \in Reqs :
    /\ Searched(r) =>
         bm25_results[r] =
           Bm25Search(svc[r].patterns,
                      BuildFromRequirements(req[r].requirements).bm25_query,
                      CandidateWidth)
    /\ (Done(r) /\ Succeeded(r)) =>
         /\ response[r].total_patterns_searched = Len(svc[r].patterns)
         /\ \A i \in 1..Len(Items(r)) : Items(r)[i].id \in SeqToSet(svc[r].patterns)

C12_Witness ==
  \E r \in Reqs :
    /\ Done(r) /\ Succeeded(r) /\ FromFusion(r)
    /\ _retrieval_service.present
    /\ Len(_retrieval_service.patterns) # Len(svc[r].patterns)
    /\ response[r].total_patterns_searched = 2

(* ---------------- C13 ---------------- *)
\* What search returns for these inputs when nothing else runs.
SoloResult(service, requirements, top_k, answer) ==
  LET queries == BuildFromRequirements(requirements)
      bm25 == Bm25Search(service.patterns, queries.bm25_query, CandidateWidth)
      methods == IF service.semantic THEN <<"bm25", "semantic">> ELSE <<"bm25">>
  IN SearchTail(service, queries, top_k, bm25, answer, methods).result

AgreesWithSolo(r) ==
  LET solo == SoloResult(svc[r], req[r].requirements, req[r].top_k, semantic_results[r])
  IN /\ response[r].patterns = solo.patterns
     /\ response[r].methods_used = solo.methods_used
     /\ response[r].weights = solo.weights

\* C13: under every interleaving at the semantic await, a call that returns
\* returns the patterns, methods_used and weights it returns when run
\* alone, and no step of a search changes a registered service or its corpus.
C13_NoSharedState ==
  /\ [](\A r \in Reqs : (Done(r) /\ Succeeded(r)) => AgreesWithSolo(r))
  /\ [][pc' # pc => UNCHANGED <<_retrieval_service, app_state_service>>]_vars

\* Two calls on one service object, with different requirements and
\* different top_k, each resumed from the semantic await: the first while
\* the second was suspended there, and both returned fused items.
C13_Witness ==
  \E r1, r2 \in Reqs :
    /\ r1 # r2
    /\ svc[r1] = svc[r2]
    /\ req[r1].requirements # req[r2].requirements
    /\ req[r1].top_k # req[r2].top_k
    /\ r2 \in suspended_peers[r1]
    /\ Done(r1) /\ Succeeded(r1) /\ FromFusion(r1)
    /\ Done(r2) /\ Succeeded(r2) /\ FromFusion(r2)
    /\ Items(r1) # Items(r2)

(* ---------------- C14 ---------------- *)
BothChannels(r) == response[r].methods_used = <<"bm25", "semantic">>

\* C14: whenever both channels contributed to a response, the weights of
\* its metadata are the two weights of the fusion object of the service the
\* call ran on, and they sum to 1.0 (ten tenths).
C14_WeightsSumToOne ==
  \A r \in Reqs :
    (Done(r) /\ Succeeded(r) /\ BothChannels(r)) =>
      /\ response[r].weights.bm25 = svc[r].weighted_fusion.bm25_weight
      /\ response[r].weights.semantic = svc[r].weighted_fusion.semantic_weight
      /\ response[r].weights.bm25 + response[r].weights.semantic = FullWeight

\* A fused response of a service constructed with a fusion other than the
\* default, while the registered service has other weights by then.
C14_Witness ==
  \E r \in Reqs :
    /\ Done(r) /\ Succeeded(r) /\ BothChannels(r) /\ FromFusion(r)
    /\ Len(Items(r)) = 2
    /\ response[r].weights # [bm25 |-> Bm25Weight, semantic |-> SemanticWeight]
    /\ response[r].weights.bm25 # response[r].weights.semantic
    /\ _retrieval_service.present
    /\ _retrieval_service.weighted_fusion # svc[r].weighted_fusion

(* ---------------- C19 ---------------- *)
IsPrefix(s, t) == Len(s) <= Len(t) /\ \A i \in 1..Len(s) : s[i] = t[i]

\* The steps of a search that runs to its end, for the service, the
\* semantic answer and the fused details of request r.
FullSequence(r) ==
  <<Step("query", 0), Step("bm25", 0)>>
  \o (IF svc[r].semantic THEN <<Step("semantic", 0)>> ELSE <<>>)
  \o <<Step(IF semantic_results[r] # <<>> THEN "fusion" ELSE "fallback", 0)>>
  \o [i \in 1..Len(fusion_details[r]) |-> Step("explain", i)]
  \o <<Step("response", 0)>>

\* C19: the steps of a search occur in the order query building, lexical
\* search (once), semantic search (at most once, after the lexical one),
\* fusion or fallback (after the channel calls returned), the explainer
\* once per fused item in final_rank order, response assembly. A search that
\* returns performs the whole sequence; an exception ends it early and
\* nothing of the sequence follows.
C19_StepOrder ==
  \A r \in Reqs :
    /\ IsPrefix(trace[r], FullSequence(r))
    /\ pc[r] = "await_semantic" => trace[r] = <<Step("query", 0), Step("bm25", 0), Step("semantic", 0)>>
    /\ (Done(r) /\ Succeeded(r)) => trace[r] = FullSequence(r)

C19_Witness ==
  \E r \in Reqs :
    /\ Done(r) /\ Succeeded(r) /\ FromFusion(r)
    /\ Len(fusion_details[r]) = 2
    /\ Len(trace[r]) = 7

(* ---------------- C15 ---------------- *)
\* C15: a generation request over HTTP whose pattern_id names no existing
\* pattern is answered with HTTP 404 and detail 'Pattern not found:
\* <pattern_id>'.
C15_UnknownPatternIs404 ==
  (/\ generation_request.via = "http"
   /\ generation_request.pattern_id # ""
   /\ ~PatternFileExists(patterns_dir, generation_request.pattern_id)) =>
    generation_response =
      [status |-> 404, detail |-> "Pattern not found: " \o generation_request.pattern_id]

(* ---------------- C16 ---------------- *)
\* C16: a constructed GeneratorService holds pattern_parser, token_injector,
\* tailwind_generator, requirement_implementer and code_assembler, so that
\* no stage generate runs fails for want of its collaborator: generate on
\* a pattern whose file is valid succeeds.
C16_ComponentsInitialised ==
  /\ generator_service.present =>
       {"pattern_parser", "token_injector", "tailwind_generator",
        "requirement_implementer", "code_assembler"} \subseteq generator_service.attributes
  /\ (/\ generation_request.via = "direct"
      /\ PatternFileExists(patterns_dir, generation_request.pattern_id)
      /\ patterns_dir[PatternName(generation_request.pattern_id)] = "valid") =>
       generation_result.success

(* ---------------- C17 ---------------- *)
\* C17: when both variants return for the same inputs and the same agent
\* answers, the proposals of propose_requirements_parallel equal those of
\* propose_requirements, and both hold the classification.
C17_ParallelEqualsSequential ==
  (orch_pc["sequential"] = "returned" /\ orch_pc["parallel"] = "returned") =>
    /\ requirement_state["parallel"].classification = agents.classifier.classification
    /\ AllProposals(requirement_state["parallel"]) = AllProposals(requirement_state["sequential"])

(* ---------------- C18 ---------------- *)
\* C18: in the generated props interface, the line of every prop that has a
\* non-empty values list types it as the union of its quoted values,
\* whatever type it declares, and a prop with required false carries '?'.
C18_ValuesTypedAsUnion ==
  interface_lines # <<>> =>
    \A i \in 1..Len(props) :
      LET p == props[i]
          mark == IF "required" \in p.keys /\ ~p.required THEN "?" ELSE OptionalMark(p)
          type == IF "values" \in p.keys /\ p.values # <<>>
                  THEN UnionType(p.values) ELSE InferPropType(p)
      IN interface_lines[PropLineIndex(props, i)] =
           "  " \o p.name \o mark \o ": " \o type \o ";"

(* ---------------- C20 ---------------- *)
\* C20: validate_and_fix terminates; it performs at most max_retries + 1
\* validation rounds and at most max_retries fix calls, goes on only after
\* a round with errors, asks for a fix neither after a valid round nor
\* after the final one, and a returned result reports as attempts the
\* number of rounds performed, between 1 and max_retries + 1.
C20_ValidateAndFixTerminates ==
  /\ [](/\ rounds <= validator.max_retries + 1
        /\ fix_calls <= validator.max_retries
        /\ (rounds > 0 /\ val_pc \in {"validating", "fixing"}) => ~Valid(last_round)
        /\ val_pc = "fixing" => rounds < validator.max_retries + 1
        /\ val_pc = "returned" =>
             /\ validation_result.attempts = rounds
             /\ 1 <= rounds /\ rounds <= validator.max_retries + 1
             /\ validation_result.valid = Valid(last_round)
             /\ ~validation_result.valid => rounds = validator.max_retries + 1)
  /\ <>(val_pc \in {"returned", "raised"})

\* A run that used every round and every fix, and returned invalid code.
C20_Witness ==
  /\ val_pc = "returned"
  /\ ~validation_result.valid
  /\ validator.max_retries >= 2
  /\ validation_result.attempts = validator.max_retries + 1
  /\ fix_calls = validator.max_retries
  /\ current_code >= 1

(* ---------------- C21 ---------------- *)
\* C21: classify_component makes at most max_retries + 1 = 4 attempts, makes
\* none after an attempt that succeeded and returns that attempt's result,
\* raises ComponentClassifierError only when all 4 attempts have failed,
\* and always ends.
C21_ClassifierBoundedRetries ==
  /\ [](/\ Len(attempt_log) <= ClassifierMaxRetries + 1
        /\ \A i \in 1..(Len(attempt_log) - 1) : attempt_log[i].raises # "none"
        /\ classify_pc = "calling" =>
             \A i \in 1..Len(attempt_log) : attempt_log[i].raises # "none"
        /\ classify_pc = "returned" =>
             /\ attempt_log # <<>>
             /\ attempt_log[Len(attempt_log)].raises = "none"
             /\ classification = attempt_log[Len(attempt_log)].classification
        /\ classify_pc = "raised" =>
             /\ Len(attempt_log) = ClassifierMaxRetries + 1
             /\ \A i \in 1..Len(attempt_log) : attempt_log[i].raises # "none")
  /\ <>(classify_pc \in {"returned", "raised"})

\* A call that succeeded at its last permitted attempt.
C21_Witness ==
  /\ classify_pc = "returned"
  /\ Len(attempt_log) = ClassifierMaxRetries + 1
  /\ classification.component_type = "button"

(* ---------------- C22 ---------------- *)
\* C22: generate never raises. When a stage throws, a missing pattern file
\* included, it returns a result with success false, the exception text
\* as error and empty component_code, stories_code and files; a result
\* with success true has error None and comes from a run in which every
\* stage completed, whatever collaborators the service holds.
C22_GenerateNeverRaises ==
  /\ (generation_request.via = "direct"
       \/ (generation_request.via = "http" /\ generation_request.pattern_id # "")) =>
       LET e == GenerateBody(generator_service, patterns_dir, generation_request.pattern_id) IN
       /\ generation_raised = NoException
       /\ generation_result # NoGenerationResult
       /\ e.raised # "none" =>
            generation_result =
              [success |-> FALSE, error_is_none |-> FALSE, error |-> e.message,
               component_code |-> "", stories_code |-> "", files |-> {}]
       /\ generation_result.success => generation_result.error_is_none /\ e.raised = "none"
  /\ \A attributes \in SUBSET {GenerationStages[i].needs : i \in 1..Len(GenerationStages)},
        pattern_id \in PatternIds :
       LET service == [present |-> TRUE, attributes |-> attributes, llm_generator |-> "mock"]
           result == Generate(service, patterns_dir, pattern_id)
       IN /\ result.success =>
               /\ result.error_is_none
               /\ \A i \in 1..Len(GenerationStages) :
                    StageRaises(service, patterns_dir, pattern_id, i).raised = "none"
          /\ ~result.success =>
               /\ ~result.error_is_none
               /\ result.component_code = "" /\ result.stories_code = "" /\ result.files = {}

(* ---------------- C23 ---------------- *)
\* C23: a fix call that raises, or the absence of an LLM generator, does
\* not make validate_and_fix fail: the code is kept as it is and validated
\* again in the next round, and a result returned when no fix ever
\* succeeded carries the input code.
C23_FixFailureAbsorbed ==
  /\ [](/\ (~validator.llm_generator => (fix_calls = 0 /\ current_code = 0))
        /\ ((val_pc = "returned" /\ fix_failures = fix_calls) => validation_result.code = 0))
  /\ [][/\ ((val_pc = "fixing" /\ fix_failures' # fix_failures) =>
             (val_pc' = "validating" /\ current_code' = current_code /\ attempt' = attempt + 1))
         /\ ((val_pc = "validating" /\ val_pc' = "validating") =>
             (current_code' = current_code /\ attempt' = attempt + 1))]_vars

\* Both fix calls of a run raised, and the result carries the input code.
C23_Witness ==
  /\ val_pc = "returned"
  /\ fix_calls = 2 /\ fix_failures = 2
  /\ validation_result.code = 0
  /\ validation_result.attempts = 3

(* ---------------- C28 ---------------- *)
\* C28: a returned ValidationResult carries the code the last validation
\* round examined, and is valid exactly when that round found no
\* TypeScript error and no ESLint error: valid equals compilation_success
\* and lint_success, and the error lists are empty exactly when valid.
C28_ResultMatchesLastRound ==
  val_pc = "returned" =>
    /\ validation_result.round = last_round
    /\ validation_result.code = last_round.code
    /\ validation_result.valid = (last_round.ts_errors = 0 /\ last_round.eslint_errors = 0)
    /\ validation_result.valid =
         (validation_result.compilation_success /\ validation_result.lint_success)
    /\ validation_result.compilation_success = (validation_result.round.ts_errors = 0)
    /\ validation_result.lint_success = (validation_result.round.eslint_errors = 0)

\* A result returned invalid after a fix was applied and examined.
C28_Witness ==
  /\ val_pc = "returned"
  /\ ~validation_result.valid
  /\ validation_result.code >= 1
  /\ validation_result.round.ts_errors = 0
  /\ validation_result.round.eslint_errors = 1

(* ---------------- C24 ---------------- *)
\* C24: a failure inside PropsProposer.propose does not abort
\* propose_requirements: the call returns a state with the classification
\* set, no props proposals, completed_at set and error unset. The call
\* aborts only on a classification failure, at the classifying step, before
\* the props proposer is called.
C24_ProposerFailureAbsorbed ==
  /\ []((orch_pc["sequential"] = "returned" /\ agents.props_proposer.raises) =>
          /\ requirement_state["sequential"].classification = agents.classifier.classification
          /\ requirement_state["sequential"].classification # NoClassification
          /\ requirement_state["sequential"].props_proposals = <<>>
          /\ requirement_state["sequential"].completed
          /\ ~requirement_state["sequential"].error)
  /\ [][/\ ((orch_pc["sequential"] # "raised" /\ orch_pc'["sequential"] = "raised") =>
              (orch_pc["sequential"] = "classifying" /\ agents.classifier.raises))
         /\ ((orch_pc["sequential"] = "proposing_props"
               /\ orch_pc'["sequential"] # "proposing_props") =>
              orch_pc'["sequential"] = "returned")]_vars

\* The sequential variant returned although its props proposer failed.
C24_Witness ==
  /\ orch_pc["sequential"] = "returned"
  /\ agents.props_proposer.raises
  /\ ~agents.classifier.raises
  /\ requirement_state["sequential"].props_proposals = <<>>
  /\ requirement_state["sequential"].completed

(* ---------------- C25 ---------------- *)
\* C25: invalidate_file(k) removes every cached entry of file k and k's
\* hit, miss and latency metrics, and leaves the entries and metrics of
\* every other file key as they were; a get_file that finds no entry under
\* its key answers None.
C25_InvalidateFileOnly ==
  [][\A c \in CacheCallers :
       /\ (cache_calls'[c] # cache_calls[c] /\ cache_calls'[c].name = "invalidate") =>
            LET k == cache_calls'[c].file_key IN
            /\ cache_calls'[c].pc = "entries_deleted" =>
                 \A e \in Endpoints : BuildKey(k, e) \notin DOMAIN redis'
            /\ cache_calls'[c].pc = "done" =>
                 \A m \in Metrics : BuildMetricsKey(k, m) \notin DOMAIN redis'
            /\ \A other \in CachedFileKeys \ {k} :
                  \A key \in {BuildKey(other, e) : e \in Endpoints}
                             \cup {BuildMetricsKey(other, m) : m \in Metrics} :
                    /\ key \in DOMAIN redis <=> key \in DOMAIN redis'
                    /\ key \in DOMAIN redis => redis'[key] = redis[key]
       /\ (cache_calls'[c] # cache_calls[c] /\ cache_calls'[c].pc = "looked_up") =>
            (BuildKey(cache_calls'[c].file_key, cache_calls'[c].endpoint) \notin DOMAIN redis
               => cache_calls'[c].returned = "None")]_vars

(* ---------------- C26 ---------------- *)
\* C26: a returned methods_used includes the semantic channel exactly when
\* the items came from weighted fusion over non-empty semantic results;
\* when the items came from the lexical-only fallback, methods_used lists
\* the lexical channel alone.
C26_MethodsUsedTellsFusion ==
  \A r \in Reqs :
    (Done(r) /\ Succeeded(r)) =>
      /\ (\E i \in 1..Len(response[r].methods_used) :
             response[r].methods_used[i] = "semantic")
           <=> (FromFusion(r) /\ semantic_results[r] # <<>>)
      /\ FromFallback(r) => response[r].methods_used = <<"bm25">>

(* ---------------- C27 ---------------- *)
\* C27: after a startup that built the retrieval service, every request to
\* POST /retrieval/search is served by that instance; the answer 503
\* "Retrieval service not initialized" is given only when the startup
\* initialisation failed.
C27_StartupServiceServes ==
  \A r \in Reqs :
    (req[r].via = "http" /\ pc[r] # "idle") =>
      /\ response[r].status = "503" => startup.failed
      /\ ~startup.failed =>
           /\ response[r].status # "503"
           /\ svc[r] = app_state_service

====
